---- MODULE Spec2Model ----
(***************************************************************************)
(* Fee accrual and position close engine of the gateway's CLMM routes.     *)
(*                                                                         *)
(* The module holds several state machines over one set of variables; a    *)
(* specification exercises one component and leaves the others idle:       *)
(*   SpecRetry    withRetries, one loop iteration per step                 *)
(*   SpecFee      feeGrowthInside and the uncollected-fee computation      *)
(*   SpecResolve  the base/quote rule (isBaseToken0) on both argument      *)
(*                orders                                                   *)
(*   Spec         the Uniswap routes position-info, positions-owned and    *)
(*                close-position and the Meteora close-position route,     *)
(*                from the request to the HTTP response                    *)
(*   SpecCloseRuns  the two close-position routes under the fairness that  *)
(*                every awaited call settles                               *)
(*   SpecFetch    the five concurrent pool reads of the accumulator fetch, *)
(*                interleaved                                              *)
(*   SpecWallet   the wallet generator script                              *)
(*   SpecRaw      toRawAmount on decimal amounts                           *)
(*   SpecTwin     two fee computations on inputs that differ in one        *)
(*                token's values                                           *)
(*   SpecSecret   readPassphrase and readWalletKey                         *)
(*   SpecCopies   the three copies of the fee block side by side           *)
(*   SpecLate     the fee block with reads still in flight after the       *)
(*                fetch has settled                                        *)
(***************************************************************************)
EXTENDS Integers, Sequences, FiniteSets, TLC

VARIABLES retry, fee, pair, req

vars == <<retry, fee, pair, req>>

\* A component that the running specification does not exercise.
Idle == [pc |-> "idle"]

Last(s) == s[Len(s)]

(***************************************************************************)
(* withRetries (positionInfo.ts 84-98; the copies in closePosition.ts      *)
(* 113-127 and positionsOwned 139-153 are the same text).                  *)
(***************************************************************************)

\* attempts = 3, baseDelayMs = 250: the defaults of withRetries.
DefaultAttempts == 3
DefaultBaseDelayMs == 250

\* Largest `attempts` a caller passes in SpecRetry.
MaxAttempts == 4

BaseDelays == {DefaultBaseDelayMs, 100}

\* `let lastError: any;` is undefined until a catch assigns it.
Undefined == "undefined"

\* What fn() can do when invoked: resolve with a value or reject with an error.
ReadErrors == {"E1", "E2"}
FnOutcomes == {[ok |-> TRUE, value |-> "V"]} \cup {[ok |-> FALSE, error |-> e] : e \in ReadErrors}

\* The state of one withRetries call on entry to the for loop. `log` records
\* the outcome of every invocation of fn, `sleeps` every delay handed to sleep.
RetryStart(attempts, baseDelayMs) ==
    [pc |-> "loop", attempts |-> attempts, baseDelayMs |-> baseDelayMs, i |-> 0,
     lastError |-> Undefined, log |-> <<>>, sleeps |-> <<>>,
     returned |-> Undefined, thrown |-> Undefined]

retryDelayConstant(baseDelayMs, i) == baseDelayMs

\* const delay = baseDelayMs * (2 ** i);
retryDelay(baseDelayMs, i) == baseDelayMs * (2 ^ i)

retrySleepsAlways(i, attempts) == i < attempts

\* if (i < attempts - 1)
retrySleeps(i, attempts) == i < attempts - 1

retryCaughtFirst(lastError, error) == IF lastError = Undefined THEN error ELSE lastError

\* lastError = error;
retryCaught(lastError, error) == error

\* One pass through the loop body, given what fn() did: return on success,
\* otherwise record the error and, when attempts remain, start the sleep.
RetryIter(st, out) ==
    LET called == [st EXCEPT !.log = Append(@, out)]
    IN  IF out.ok
        THEN [called EXCEPT !.pc = "returned", !.returned = out.value]
        ELSE LET caught == [called EXCEPT !.lastError = retryCaught(@, out.error)]
             IN  IF retrySleeps(st.i, st.attempts)
                 THEN [caught EXCEPT !.pc = "sleep",
                                     !.sleeps = Append(@, retryDelay(st.baseDelayMs, st.i))]
                 ELSE [caught EXCEPT !.i = @ + 1]

\* The sleep's timer fires: the loop goes on with i++.
RetryWake(st) == [st EXCEPT !.pc = "loop", !.i = @ + 1]

\* throw lastError; after the loop.
RetryExit(st) == [st EXCEPT !.pc = "thrown", !.thrown = st.lastError]

\* withRetries run to its end against a script of fn outcomes, one per call.
RECURSIVE RetryRun(_, _)
RetryRun(st, script) ==
    IF st.pc = "sleep" THEN RetryRun(RetryWake(st), script)
    ELSE IF st.pc # "loop" THEN st
    ELSE IF st.i < st.attempts THEN RetryRun(RetryIter(st, Head(script)), Tail(script))
    ELSE RetryExit(st)

\* withRetries(fn) with the default attempts and baseDelayMs.
withRetries(script) == RetryRun(RetryStart(DefaultAttempts, DefaultBaseDelayMs), script)

InitRetry ==
    /\ \E a \in 1..MaxAttempts, b \in BaseDelays : retry = RetryStart(a, b)
    /\ fee = Idle /\ pair = Idle /\ req = Idle

RetryAttempt ==
    /\ retry.pc = "loop" /\ retry.i < retry.attempts
    /\ \E out \in FnOutcomes : retry' = RetryIter(retry, out)
    /\ UNCHANGED <<fee, pair, req>>

RetrySleepDone ==
    /\ retry.pc = "sleep"
    /\ retry' = RetryWake(retry)
    /\ UNCHANGED <<fee, pair, req>>

RetryThrow ==
    /\ retry.pc = "loop" /\ retry.i >= retry.attempts
    /\ retry' = RetryExit(retry)
    /\ UNCHANGED <<fee, pair, req>>

NextRetry == RetryAttempt \/ RetrySleepDone \/ RetryThrow

SpecRetry == InitRetry /\ [][NextRetry]_vars

\* ---- Claims about withRetries ----

RetryFailures == Len(SelectSeq(retry.log, LAMBDA o : ~o.ok))

\* C1: withRetries returns at the first success without invoking the operation
\* again, and the wait between attempt k-1 and attempt k (attempts counted from
\* 0) is baseDelayMs * 2^(k-1), taken before attempt k starts. With the
\* defaults, an operation that fails twice and then succeeds is invoked exactly
\* three times, the waits are 250 and 500, and the success value is returned.
C1_RetryReturnsAtFirstSuccess ==
    retry.pc # "idle" =>
        /\ \A k \in 1..Len(retry.log) :
               retry.log[k].ok => k = Len(retry.log) /\ retry.pc = "returned"
        /\ \A k \in 1..Len(retry.sleeps) : retry.sleeps[k] = retry.baseDelayMs * 2 ^ (k - 1)
        /\ retry.pc = "sleep" => Len(retry.sleeps) = Len(retry.log)
        /\ (retry.pc = "loop" /\ retry.i < retry.attempts) =>
               Len(retry.sleeps) = Len(retry.log) /\ retry.i = Len(retry.log)
        /\ retry.pc = "returned" =>
               /\ Last(retry.log).ok
               /\ retry.returned = Last(retry.log).value
               /\ Len(retry.sleeps) = Len(retry.log) - 1
               /\ (/\ retry.attempts = 3 /\ retry.baseDelayMs = 250
                   /\ Len(retry.log) = 3) => retry.sleeps = <<250, 500>>

\* Defaults, two failures, then a success: three invocations, waits 250 and 500.
C1_Witness ==
    /\ retry.pc = "returned"
    /\ retry.attempts = DefaultAttempts /\ retry.baseDelayMs = DefaultBaseDelayMs
    /\ Len(retry.log) = 3 /\ ~retry.log[1].ok /\ ~retry.log[2].ok /\ retry.log[3].ok
    /\ retry.returned = "V" /\ retry.sleeps = <<250, 500>>

\* C2: when every attempt fails, the operation is invoked exactly `attempts`
\* times, no wait follows the final failure, and withRetries throws the error
\* of the final attempt.
C2_RetryExhaustedThrowsLastError ==
    retry.pc # "idle" =>
        /\ retry.pc = "thrown" =>
               /\ Len(retry.log) = retry.attempts
               /\ \A k \in 1..Len(retry.log) : ~retry.log[k].ok
               /\ Len(retry.sleeps) = retry.attempts - 1
               /\ retry.thrown = Last(retry.log).error
        /\ (RetryFailures = retry.attempts) =>
               /\ retry.pc \in {"loop", "thrown"}
               /\ Len(retry.sleeps) = retry.attempts - 1
        /\ Len(retry.log) <= retry.attempts

\* Three failures with different errors: the third one is thrown.
C2_Witness ==
    /\ retry.pc = "thrown" /\ retry.attempts = DefaultAttempts
    /\ Len(retry.log) = 3 /\ retry.log[1].error = "E1" /\ retry.log[3].error = "E2"
    /\ retry.thrown = "E2" /\ Len(retry.sleeps) = 2

(***************************************************************************)
(* The fee computation (positionInfo.ts 132-176; the same text stands in   *)
(* closePosition.ts 158-202 and positionsOwned 179-223).  The values are   *)
(* ethers BigNumbers: signed integers of unbounded size.                   *)
(***************************************************************************)

\* Width of the fixed-point fraction. The source uses BigNumber.from(2).pow(128);
\* the computation is the same for every width, and the model runs it with a
\* width its integers can hold.
QBits == 4

\* const Q128 = BigNumber.from(2).pow(128);
Q128 == 2 ^ QBits

safeSubWrapping(a, b) == a - b

\* const safeSub = (a, b) => (a.gte(b) ? a.sub(b) : BigNumber.from(0));
safeSub(a, b) == IF a >= b THEN a - b ELSE 0

feeBelowExclusive(global, lowerOutside, current, lower) ==
    IF current > lower THEN lowerOutside ELSE safeSub(global, lowerOutside)

\* const feeBelow = current >= lower ? lowerOutside : safeSub(global, lowerOutside);
feeBelow(global, lowerOutside, current, lower) ==
    IF current >= lower THEN lowerOutside ELSE safeSub(global, lowerOutside)

\* const feeAbove = current < upper ? upperOutside : safeSub(global, upperOutside);
feeAbove(global, upperOutside, current, upper) ==
    IF current < upper THEN upperOutside ELSE safeSub(global, upperOutside)

\* return safeSub(global, feeBelow.add(feeAbove));
feeGrowthInside(global, lowerOutside, upperOutside, current, lower, upper) ==
    safeSub(global, feeBelow(global, lowerOutside, current, lower)
                    + feeAbove(global, upperOutside, current, upper))

deltaFeeGrowthUnguarded(inside, last) == inside - last

\* feeGrowthInsideX128.gte(last) ? feeGrowthInsideX128.sub(last) : BigNumber.from(0)
deltaFeeGrowth(inside, last) == IF inside >= last THEN inside - last ELSE 0

\* liquidity.mul(deltaFeeGrowth).div(Q128): BigNumber.div truncates, and both
\* operands are non-negative here.
uncollected(liquidity, delta) == (liquidity * delta) \div Q128

\* Number of half-units of Q128 the accumulator values of SpecFee range over.
MaxGrowth == 3

GrowthValues == {k * (Q128 \div 2) : k \in 0..MaxGrowth}
TickValues == {-10, 0, 10}
LiquidityValues == {0, 1, 3}
OwedValues == {0, 5}

InitFee ==
    /\ \E g \in GrowthValues, lo \in GrowthValues, up \in GrowthValues, last \in GrowthValues,
          cur \in TickValues, lower \in TickValues, upper \in TickValues,
          liq \in LiquidityValues, owed \in OwedValues :
          fee = [pc |-> "start", global |-> g, lowerOutside |-> lo, upperOutside |-> up,
                 current |-> cur, lower |-> lower, upper |-> upper,
                 liquidity |-> liq, last |-> last, tokensOwed |-> owed,
                 inside |-> 0, total |-> owed]
    /\ retry = Idle /\ pair = Idle /\ req = Idle

\* const feeGrowthInside0X128 = feeGrowthInside(...)
FeeInside ==
    /\ fee.pc = "start"
    /\ fee' = [fee EXCEPT !.pc = "inside",
                          !.inside = feeGrowthInside(fee.global, fee.lowerOutside, fee.upperOutside,
                                                     fee.current, fee.lower, fee.upper)]
    /\ UNCHANGED <<retry, pair, req>>

\* totalFee0 = feeAmount0Raw.add(uncollected0)
FeeTotal ==
    /\ fee.pc = "inside"
    /\ fee' = [fee EXCEPT !.pc = "total",
                          !.total = fee.tokensOwed
                                    + uncollected(fee.liquidity, deltaFeeGrowth(fee.inside, fee.last))]
    /\ UNCHANGED <<retry, pair, req>>

NextFee == FeeInside \/ FeeTotal

SpecFee == InitFee /\ [][NextFee]_vars

\* ---- Claims about the fee computation ----

\* C4: for non-negative global, lowerOutside and upperOutside and any ticks,
\* feeGrowthInside lies between 0 and global inclusive.
C4_InsideWithinGlobal ==
    fee.pc \in {"inside", "total"} => 0 <= fee.inside /\ fee.inside <= fee.global

\* The bound is met: an inside value equal to a positive global accumulator.
C4_Witness ==
    /\ fee.pc = "inside" /\ fee.global > 0 /\ fee.inside = fee.global
    /\ fee.lowerOutside = 0 /\ fee.upperOutside = 0

ClampedSub(a, b) == IF a >= b THEN a - b ELSE 0

\* C5: feeGrowthInside = clampedSub(global, feeBelow + feeAbove), with feeBelow
\* = lowerOutside when currentTick >= lower (inclusive) else clampedSub(global,
\* lowerOutside), and feeAbove = upperOutside when currentTick < upper
\* (exclusive) else clampedSub(global, upperOutside).
C5_InsideFormula ==
    fee.pc \in {"inside", "total"} =>
        LET below == IF fee.current >= fee.lower
                     THEN fee.lowerOutside ELSE ClampedSub(fee.global, fee.lowerOutside)
            above == IF fee.current < fee.upper
                     THEN fee.upperOutside ELSE ClampedSub(fee.global, fee.upperOutside)
        IN  /\ fee.inside = ClampedSub(fee.global, below + above)
            /\ (fee.current = fee.lower /\ fee.current < fee.upper) =>
                   fee.inside = ClampedSub(fee.global, fee.lowerOutside + fee.upperOutside)
            /\ (fee.current = fee.upper /\ fee.current >= fee.lower) =>
                   fee.inside = ClampedSub(fee.global, fee.lowerOutside
                                           + ClampedSub(fee.global, fee.upperOutside))

\* currentTick == lower counted as inside the range, where treating it as below
\* would give another value.
C5_Witness ==
    /\ fee.pc = "inside" /\ fee.current = fee.lower /\ fee.current < fee.upper
    /\ fee.lowerOutside # ClampedSub(fee.global, fee.lowerOutside)
    /\ fee.inside = fee.global - fee.lowerOutside - fee.upperOutside
    /\ fee.inside > 0

\* C6: the delta is floored at zero: when the fresh feeGrowthInside is below
\* the position's checkpoint the uncollected fee is 0 and the total is
\* tokensOwed; otherwise uncollected = floor(liquidity * (insideNow -
\* insideLast) / 2^128). The total is never below tokensOwed.
C6_DeltaFlooredAtZero ==
    fee.pc = "total" =>
        /\ fee.inside < fee.last => fee.total = fee.tokensOwed
        /\ fee.inside >= fee.last =>
               \E u \in 0..(fee.liquidity * (fee.inside - fee.last)) :
                   /\ u * Q128 <= fee.liquidity * (fee.inside - fee.last)
                   /\ fee.liquidity * (fee.inside - fee.last) < (u + 1) * Q128
                   /\ fee.total = fee.tokensOwed + u
        /\ fee.total >= fee.tokensOwed /\ fee.total >= 0

\* A stale checkpoint (insideNow < insideLast) on a position with liquidity and
\* owed fees: the total is tokensOwed.
C6_Witness ==
    /\ fee.pc = "total" /\ fee.inside < fee.last /\ fee.liquidity > 0
    /\ fee.tokensOwed > 0 /\ fee.total = fee.tokensOwed

(***************************************************************************)
(* Base and quote (positionInfo.ts 211-218, closePosition.ts 77-80,        *)
(* positionsOwned 253-260).  A token is {address, symbol, decimals}; an    *)
(* address is a string, held here as the sequence of its character codes.  *)
(***************************************************************************)

\* Length of the addresses of SpecResolve.
AddrLen == 2

\* "1", "A", "a", "b"
AddrChars == {49, 65, 97, 98}
Addresses == [1..AddrLen -> AddrChars]
Symbols == {"WETH", "weth", "USDT"}

\* String.prototype.toLowerCase on the characters of an address.
toLowerCase(s) == [k \in DOMAIN s |-> IF s[k] \in 65..90 THEN s[k] + 32 ELSE s[k]]

\* a < b on strings: the first differing code unit decides, a proper prefix is smaller.
RECURSIVE StrLess(_, _)
StrLess(a, b) ==
    IF Len(b) = 0 THEN FALSE
    ELSE IF Len(a) = 0 THEN TRUE
    ELSE IF a[1] # b[1] THEN a[1] < b[1]
    ELSE StrLess(Tail(a), Tail(b))

isBaseToken0AddressOnly(token0, token1) ==
    StrLess(toLowerCase(token0.address), toLowerCase(token1.address))

isBaseToken0Swapped(token0, token1) ==
    ~(\/ token0.symbol = "WETH"
      \/ (/\ token1.symbol # "WETH"
          /\ StrLess(toLowerCase(token0.address), toLowerCase(token1.address))))

\* token0.symbol === 'WETH' ||
\* (token1.symbol !== 'WETH' && token0.address.toLowerCase() < token1.address.toLowerCase())
isBaseToken0(token0, token1) ==
    \/ token0.symbol = "WETH"
    \/ (/\ token1.symbol # "WETH"
        /\ StrLess(toLowerCase(token0.address), toLowerCase(token1.address)))

\* const [baseTokenAddress, quoteTokenAddress] = isBaseToken0 ? [token0.address, token1.address]
\*                                                            : [token1.address, token0.address];
resolve(token0, token1) ==
    IF isBaseToken0(token0, token1)
    THEN [baseTokenAddress |-> token0.address, quoteTokenAddress |-> token1.address]
    ELSE [baseTokenAddress |-> token1.address, quoteTokenAddress |-> token0.address]

ResolveTokens == [address : Addresses, symbol : Symbols, decimals : {18}]

InitResolve ==
    /\ \E a \in ResolveTokens, b \in ResolveTokens :
          pair = [pc |-> "start", A |-> a, B |-> b]
    /\ retry = Idle /\ fee = Idle /\ req = Idle

\* The rule applied to (A, B).
ResolveAB ==
    /\ pair.pc = "start"
    /\ pair' = [pc |-> "ab", A |-> pair.A, B |-> pair.B, ab |-> resolve(pair.A, pair.B)]
    /\ UNCHANGED <<retry, fee, req>>

\* The rule applied to (B, A).
ResolveBA ==
    /\ pair.pc = "ab"
    /\ pair' = [pc |-> "both", A |-> pair.A, B |-> pair.B, ab |-> pair.ab,
                ba |-> resolve(pair.B, pair.A)]
    /\ UNCHANGED <<retry, fee, req>>

NextResolve == ResolveAB \/ ResolveBA

SpecResolve == InitResolve /\ [][NextResolve]_vars

\* ---- Claims about base and quote ----

\* Two address strings name the same token when they agree up to letter case.
SameToken(x, y) == toLowerCase(x) = toLowerCase(y)

\* C8: resolve(A, B) and resolve(B, A) designate the same token as base and the
\* same token as quote, for every pair of tokens (both, one or neither carrying
\* the wrapped-native symbol; addresses differing only in letter case).
C8_ResolveOrderIndependent ==
    pair.pc = "both" =>
        /\ SameToken(pair.ab.baseTokenAddress, pair.ba.baseTokenAddress)
        /\ SameToken(pair.ab.quoteTokenAddress, pair.ba.quoteTokenAddress)

\* Two different tokens that both carry the symbol WETH, resolved in both orders.
C8_BothWrappedNative ==
    /\ pair.pc = "both" /\ pair.A.symbol = "WETH" /\ pair.B.symbol = "WETH"
    /\ ~SameToken(pair.A.address, pair.B.address)

(***************************************************************************)
(* The Uniswap routes.  The chain and the other collaborators answer each  *)
(* call with one of the outcomes listed here; a request keeps the locals   *)
(* of its handler in `req`.                                                *)
(***************************************************************************)

\* "01", "02", "0b", "0B", "0a", "0c"
Token(address, symbol, decimals) == [address |-> address, symbol |-> symbol, decimals |-> decimals]
BORT == Token(<<48, 49>>, "BORT", 0)
USDT == Token(<<48, 50>>, "USDT", 0)
WETH == Token(<<48, 98>>, "WETH", 18)
WETH2 == Token(<<48, 99>>, "WETH", 18)
MixedCase == Token(<<48, 66>>, "AAA", 6)
LowerCase == Token(<<48, 97>>, "BBB", 6)

\* The pool's fee accumulators: feeGrowthGlobal{0,1}X128(), slot0().tick and
\* ticks(tickLower), ticks(tickUpper).
PoolState(g0, g1, tick, lo0, lo1, up0, up1) ==
    [feeGrowthGlobal0X128 |-> g0, feeGrowthGlobal1X128 |-> g1, tick |-> tick,
     lower |-> [feeGrowthOutside0X128 |-> lo0, feeGrowthOutside1X128 |-> lo1],
     upper |-> [feeGrowthOutside0X128 |-> up0, feeGrowthOutside1X128 |-> up1]]

\* The accumulators of the route tests (closePosition test 104-118).
PoolQuiet == PoolState(100 * Q128, 0, 0, 10 * Q128, 0, 20 * Q128, 0)
\* Both tokens accrue, the current tick sits on tickLower.
PoolBusy == PoolState(100 * Q128, 9 * Q128 + Q128 \div 2, -10, 10 * Q128, Q128, 20 * Q128, 2 * Q128)

\* What positionManager.positions(tokenId) returns.
Details(liq, owed0, owed1, last0, last1) ==
    [tickLower |-> -10, tickUpper |-> 10, fee |-> 500, liquidity |-> liq,
     tokensOwed0 |-> owed0, tokensOwed1 |-> owed1,
     feeGrowthInside0LastX128 |-> last0, feeGrowthInside1LastX128 |-> last1]

\* A position on the chain: its NFT id, what positions() returns for it, the
\* tokens the registry holds for its two addresses, its pool's accumulators and
\* the amounts the SDK's Position computes for its liquidity.
Scenario(id, t0, t1, details, pool, a0, a1) ==
    [tokenId |-> id, token0 |-> t0, token1 |-> t1, details |-> details, pool |-> pool,
     amount0 |-> a0, amount1 |-> a1]

Scenarios ==
    << Scenario("42", BORT, USDT, Details(1000, 0, 0, 50 * Q128, 0), PoolQuiet, 0, 0),
       Scenario("43", USDT, WETH, Details(1000, 5, 7, 50 * Q128, 0), PoolBusy, 150, 40),
       Scenario("44", WETH, BORT, Details(1000, 5, 7, 80 * Q128, 0), PoolQuiet, 150, 40),
       Scenario("45", MixedCase, LowerCase, Details(3, 0, 2, 0, Q128), PoolBusy, 1, 12),
       Scenario("46", BORT, USDT, Details(0, 5, 0, 50 * Q128, 0), PoolQuiet, 0, 0),
       Scenario("47", BORT, USDT, Details(0, 0, 0, 70 * Q128, 0), PoolQuiet, 0, 0),
       Scenario("48", WETH, WETH2, Details(1000, 0, 1, 0, 0), PoolBusy, 7, 9) >>

ScenarioIds == 1..Len(Scenarios)

\* fastify.httpErrors.* / httpErrors.*: an error that carries a statusCode.
HttpError(statusCode, message) == [statusCode |-> statusCode, message |-> message]
badRequest(message) == HttpError(400, message)
forbidden(message) == HttpError(403, message)
notFound(message) == HttpError(404, message)
internalServerError(message) == HttpError(500, message)

\* new Error(message): no statusCode property.
Error(message) == [message |-> message]

HasStatusCodeNever(e) == FALSE

\* if (e.statusCode)
HasStatusCode(e) == "statusCode" \in DOMAIN e

\* null, as distinct from undefined.
Null == "null"

\* The UTF-16 code units of the texts the collaborators' errors carry.
Chars(text) ==
    CASE text = "Invalid token ID" ->
             <<73, 110, 118, 97, 108, 105, 100, 32, 116, 111, 107, 101, 110, 32, 73, 68>>
      [] text = "INVALID TOKEN ID" ->
             <<73, 78, 86, 65, 76, 73, 68, 32, 84, 79, 75, 69, 78, 32, 73, 68>>
      [] text = "ERC721: invalid token ID" ->
             <<69, 82, 67, 55, 50, 49, 58, 32, 105, 110, 118, 97, 108, 105, 100, 32, 116, 111, 107, 101, 110, 32, 73, 68>>
      [] text = "invalid token id" ->
             <<105, 110, 118, 97, 108, 105, 100, 32, 116, 111, 107, 101, 110, 32, 105, 100>>
      [] text = "call revert exception" ->
             <<99, 97, 108, 108, 32, 114, 101, 118, 101, 114, 116, 32, 101, 120, 99, 101, 112, 116, 105, 111, 110>>
      [] text = "processing response error" ->
             <<112, 114, 111, 99, 101, 115, 115, 105, 110, 103, 32, 114, 101, 115, 112, 111, 110, 115, 101, 32, 101, 114, 114, 111, 114>>
      [] text = "missing response" ->
             <<109, 105, 115, 115, 105, 110, 103, 32, 114, 101, 115, 112, 111, 110, 115, 101>>
      [] text = "Position 42 is not owned by 0xW" ->
             <<80, 111, 115, 105, 116, 105, 111, 110, 32, 52, 50, 32, 105, 115, 32, 110, 111, 116, 32, 111, 119, 110, 101, 100, 32, 98, 121, 32, 48, 120, 87>>
      [] text = "is not owned by" ->
             <<105, 115, 32, 110, 111, 116, 32, 111, 119, 110, 101, 100, 32, 98, 121>>
      [] text = "Position 42 Is Not Owned By 0xW" ->
             <<80, 111, 115, 105, 116, 105, 111, 110, 32, 52, 50, 32, 73, 115, 32, 78, 111, 116, 32, 79, 119, 110, 101, 100, 32, 66, 121, 32, 48, 120, 87>>
      [] text = "Token not found" ->
             <<84, 111, 107, 101, 110, 32, 110, 111, 116, 32, 102, 111, 117, 110, 100>>
      [] text = "insufficient funds" ->
             <<105, 110, 115, 117, 102, 102, 105, 99, 105, 101, 110, 116, 32, 102, 117, 110, 100, 115>>
      [] text = "transaction failed" ->
             <<116, 114, 97, 110, 115, 97, 99, 116, 105, 111, 110, 32, 102, 97, 105, 108, 101, 100>>
      [] text = "Wallet not found" ->
             <<87, 97, 108, 108, 101, 116, 32, 110, 111, 116, 32, 102, 111, 117, 110, 100>>
      [] text = "blockhash not found" ->
             <<98, 108, 111, 99, 107, 104, 97, 115, 104, 32, 110, 111, 116, 32, 102, 111, 117, 110, 100>>
      [] text = "transaction expired" ->
             <<116, 114, 97, 110, 115, 97, 99, 116, 105, 111, 110, 32, 101, 120, 112, 105, 114, 101, 100>>
      [] text = "Simulation failed" ->
             <<83, 105, 109, 117, 108, 97, 116, 105, 111, 110, 32, 102, 97, 105, 108, 101, 100>>
      [] text = "Failed to get position info" ->
             <<70, 97, 105, 108, 101, 100, 32, 116, 111, 32, 103, 101, 116, 32, 112, 111, 115, 105, 116, 105, 111, 110, 32, 105, 110, 102, 111>>
      [] text = "Failed to fetch positions" ->
             <<70, 97, 105, 108, 101, 100, 32, 116, 111, 32, 102, 101, 116, 99, 104, 32, 112, 111, 115, 105, 116, 105, 111, 110, 115>>
      [] text = "Failed to close position" ->
             <<70, 97, 105, 108, 101, 100, 32, 116, 111, 32, 99, 108, 111, 115, 101, 32, 112, 111, 115, 105, 116, 105, 111, 110>>
      [] text = "Internal server error" ->
             <<73, 110, 116, 101, 114, 110, 97, 108, 32, 115, 101, 114, 118, 101, 114, 32, 101, 114, 114, 111, 114>>

\* String.prototype.includes on code units.
includes(s, searchString) ==
    \E k \in 0..(Len(s) - Len(searchString)) :
        SubSeq(s, k + 1, k + Len(searchString)) = searchString

\* err?.field: undefined when the error has no such property.
Field(err, name) == IF name \in DOMAIN err THEN err[name] ELSE Undefined

\* a ?? b: b when a is null or undefined.
Coalesce(a, b) == IF a \in {Null, Undefined} THEN b ELSE a

\* The five reads of the accumulator fetch.
Reads == {"feeGrowthGlobal0X128", "feeGrowthGlobal1X128", "slot0", "ticksLower", "ticksUpper"}

\* What each read returns when it succeeds.
ReadValue(pool, r) ==
    CASE r = "feeGrowthGlobal0X128" -> pool.feeGrowthGlobal0X128
      [] r = "feeGrowthGlobal1X128" -> pool.feeGrowthGlobal1X128
      [] r = "slot0" -> [tick |-> pool.tick]
      [] r = "ticksLower" -> pool.lower
      [] r = "ticksUpper" -> pool.upper

\* How many times in a row a read fails before the node answers.
FailCounts == {0, 2, DefaultAttempts}

\* What the node does to the five reads of one fetch: the reads of `down` never
\* answer within the attempts, the others answer after the same number of failures.
FailPatterns ==
    {[r \in Reads |-> IF r \in down THEN DefaultAttempts ELSE c] :
        down \in SUBSET Reads, c \in FailCounts \ {DefaultAttempts}}

\* The outcomes of a read's invocations: `fails` rejections, then the value.
ReadScript(value, fails) ==
    [k \in 1..(IF fails < DefaultAttempts THEN fails + 1 ELSE DefaultAttempts) |->
        IF k <= fails THEN [ok |-> FALSE, error |-> "E1"] ELSE [ok |-> TRUE, value |-> value]]

\* The array handed to Promise.all: withRetries(() => poolContract.<read>()) for each read.
FetchAccumulators(pool, fails) ==
    LET read(r) == withRetries(ReadScript(ReadValue(pool, r), fails[r]))
    IN  [feeGrowthGlobal0X128 |-> read("feeGrowthGlobal0X128"),
         feeGrowthGlobal1X128 |-> read("feeGrowthGlobal1X128"),
         slot0 |-> read("slot0"),
         ticksLower |-> read("ticksLower"),
         ticksUpper |-> read("ticksUpper")]

Exhausted(results) == {r \in Reads : results[r].pc = "thrown"}

\* await Promise.all([...]): the values when every promise fulfils, a rejection
\* as soon as one rejects.
promiseAll(results) ==
    IF Exhausted(results) # {}
    THEN [status |-> "rejected", reason |-> Error(results[CHOOSE r \in Exhausted(results) : TRUE].thrown)]
    ELSE [status |-> "fulfilled", value |-> [r \in Reads |-> results[r].returned]]

\* ---- The fetch with its five reads in flight at once ----

allSettledAtFirstAnswer(all, reads) ==
    IF all.status # "pending" THEN all
    ELSE IF Exhausted(reads) # {} THEN promiseAll(reads)
    ELSE IF \E r \in Reads : reads[r].pc = "returned"
         THEN [status |-> "fulfilled", value |-> [r \in Reads |-> reads[r].returned]]
         ELSE all

\* The promise of Promise.all([...]) after one of the five promises has changed:
\* settled once, rejected by the first rejection, fulfilled by the last value.
allSettled(all, reads) ==
    IF all.status # "pending" THEN all
    ELSE IF Exhausted(reads) # {} \/ \A r \in Reads : reads[r].pc = "returned"
         THEN promiseAll(reads)
         ELSE all

\* Promise.all([withRetries(...), ...]): the array is built in one go, so each
\* of the five reads has its first invocation in flight.
InitFetch ==
    /\ fee = [pc |-> "fetch", pool |-> PoolBusy,
              reads |-> [r \in Reads |-> RetryStart(DefaultAttempts, DefaultBaseDelayMs)],
              all |-> [status |-> "pending"]]
    /\ retry = Idle /\ pair = Idle /\ req = Idle

\* The invocation in flight of one read answers or fails; after the last
\* failure `throw lastError` follows without an await.
FetchAttempt ==
    /\ fee.pc = "fetch"
    /\ \E r \in Reads, ok \in BOOLEAN :
          /\ fee.reads[r].pc = "loop"
          /\ LET out == IF ok THEN [ok |-> TRUE, value |-> ReadValue(fee.pool, r)]
                              ELSE [ok |-> FALSE, error |-> "E1"]
                 st == RetryIter(fee.reads[r], out)
                 ended == IF st.pc = "loop" /\ st.i >= st.attempts THEN RetryExit(st) ELSE st
                 reads == [fee.reads EXCEPT ![r] = ended]
             IN  fee' = [fee EXCEPT !.reads = reads, !.all = allSettled(fee.all, reads)]
    /\ UNCHANGED <<retry, pair, req>>

\* The timer of one read's sleep fires and the read is invoked again.
FetchSleepDone ==
    /\ fee.pc = "fetch"
    /\ \E r \in Reads :
          /\ fee.reads[r].pc = "sleep"
          /\ fee' = [fee EXCEPT !.reads[r] = RetryWake(@)]
    /\ UNCHANGED <<retry, pair, req>>

NextFetch == FetchAttempt \/ FetchSleepDone

SpecFetch == InitFetch /\ [][NextFetch]_vars

computeFeesOwedOnly(details, v) ==
    [inside0 |-> 0, inside1 |-> 0,
     totalFee0 |-> details.tokensOwed0, totalFee1 |-> details.tokensOwed1]

computeFeesOneCheckpoint(details, v) ==
    LET currentTick == v["slot0"].tick
        inside0 == feeGrowthInside(v["feeGrowthGlobal0X128"],
                                   v["ticksLower"].feeGrowthOutside0X128,
                                   v["ticksUpper"].feeGrowthOutside0X128,
                                   currentTick, details.tickLower, details.tickUpper)
        inside1 == feeGrowthInside(v["feeGrowthGlobal1X128"],
                                   v["ticksLower"].feeGrowthOutside1X128,
                                   v["ticksUpper"].feeGrowthOutside1X128,
                                   currentTick, details.tickLower, details.tickUpper)
    IN  [inside0 |-> inside0, inside1 |-> inside1,
         totalFee0 |-> details.tokensOwed0
                       + uncollected(details.liquidity,
                                     deltaFeeGrowth(inside0, details.feeGrowthInside0LastX128)),
         totalFee1 |-> details.tokensOwed1
                       + uncollected(details.liquidity,
                                     deltaFeeGrowth(inside1, details.feeGrowthInside0LastX128))]

\* The try block after the fetch: feeGrowthInside for both tokens, the deltas
\* against the position's checkpoints, totalFee = tokensOwed + uncollected.
computeFees(details, v) ==
    LET currentTick == v["slot0"].tick
        inside0 == feeGrowthInside(v["feeGrowthGlobal0X128"],
                                   v["ticksLower"].feeGrowthOutside0X128,
                                   v["ticksUpper"].feeGrowthOutside0X128,
                                   currentTick, details.tickLower, details.tickUpper)
        inside1 == feeGrowthInside(v["feeGrowthGlobal1X128"],
                                   v["ticksLower"].feeGrowthOutside1X128,
                                   v["ticksUpper"].feeGrowthOutside1X128,
                                   currentTick, details.tickLower, details.tickUpper)
    IN  [inside0 |-> inside0, inside1 |-> inside1,
         totalFee0 |-> details.tokensOwed0
                       + uncollected(details.liquidity,
                                     deltaFeeGrowth(inside0, details.feeGrowthInside0LastX128)),
         totalFee1 |-> details.tokensOwed1
                       + uncollected(details.liquidity,
                                     deltaFeeGrowth(inside1, details.feeGrowthInside1LastX128))]

\* formatTokenAmount(raw.toString(), decimals): the amount raw / 10^decimals,
\* kept as the pair of its numerator and its number of decimals.
formatTokenAmount(raw, decimals) == [raw |-> raw, decimals |-> decimals]

\* The handler awaits a call of a collaborator; `calls` keeps which ones it made.
chainEffectOfBuilding(name, chain) ==
    IF name \in {"positionManager.multicall", "solana.sendAndConfirmTransaction",
                 "dlmmPool.removeLiquidity"}
    THEN chain + 1 ELSE chain

\* What a call of a collaborator may do to the chain, counted in transactions
\* handed to it: the writer's send does, every read, simulation and builder does not.
chainEffect(name, chain) ==
    IF name \in {"positionManager.multicall", "solana.sendAndConfirmTransaction"}
    THEN chain + 1 ELSE chain

Call(r, name) == [r EXCEPT !.calls = @ \cup {name}, !.chain = chainEffect(name, @)]

\* The call `name` rejected with `e` inside a try block of the handler.
Rejected(name, e) == [call |-> name, error |-> e]

\* An exception leaves the handler and reaches the route's catch.
ThrowAnswersPending(r, e) ==
    [r EXCEPT !.pc = "done", !.error = e,
              !.response = [status |-> 200, body |-> [signature |-> "", status |-> 0]]]

\* throw e, out of the handler's function: the route's catch is next.
Throw(r, e) == [r EXCEPT !.pc = "caught", !.error = e]

feeErrorRethrown(r, feeError) == Throw(r, feeError)

\* catch (feeError) { logger.warn(...) }: totalFee0 and totalFee1 keep the
\* tokensOwed they were initialised with and the handler goes on.
feeErrorCaught(r, feeError) ==
    [r EXCEPT !.warned = Append(@, "Could not calculate uncollected fees")]

\* let totalFee0 = feeAmount0Raw; let totalFee1 = feeAmount1Raw; try { fetch,
\* compute, assign } catch { warn }.  `fails` is what the node does to each read.
FeeBlock(r, fails) ==
    LET scen == Scenarios[r.scen]
        results == FetchAccumulators(scen.pool, fails)
        settled == promiseAll(results)
        init == [r EXCEPT !.totalFee0 = r.positionDetails.tokensOwed0,
                          !.totalFee1 = r.positionDetails.tokensOwed1,
                          !.exhausted = Exhausted(results),
                          !.fetch = settled.status]
    IN  IF settled.status = "fulfilled"
        THEN LET f == computeFees(r.positionDetails, settled.value)
             IN  [init EXCEPT !.totalFee0 = f.totalFee0, !.totalFee1 = f.totalFee1,
                              !.inside0 = f.inside0, !.inside1 = f.inside1]
        ELSE feeErrorCaught(init, settled.reason)

\* A request on entry to its route handler.  `thrown` keeps what the
\* collaborators rejected with inside the handler's own try blocks.
Request(op, walletAddress, positionAddress) ==
    [op |-> op, pc |-> "start", walletAddress |-> walletAddress,
     positionAddress |-> positionAddress,
     scen |-> 0, positionDetails |-> Undefined, token0 |-> Undefined, token1 |-> Undefined,
     totalFee0 |-> 0, totalFee1 |-> 0, inside0 |-> 0, inside1 |-> 0,
     fetch |-> "none", exhausted |-> {}, warned |-> <<>>,
     removeParams |-> Undefined,
     sent |-> 0, numPositions |-> 0, i |-> 0, positions |-> <<>>, iterations |-> <<>>,
     calls |-> {}, chain |-> 0, thrown |-> <<>>, error |-> Undefined, logged |-> <<>>,
     response |-> Undefined]

\* The positionAddress of a request: absent, empty or a token id.
PositionAddresses == {Undefined, "", "42"}

falsyNever(value) == FALSE

falsyOnlyUndefined(value) == value = Undefined

\* !value on a string that may be absent.
falsy(value) == value \in {"", Undefined, Null}

\* What positionManager.positions() rejects with: a plain Error, or the
\* provider's error with a reason and the revert's arguments next to its message.
PositionsErrors ==
    {Error("Invalid token ID"), Error("missing response"),
     [reason |-> "ERC721: invalid token ID", errorArgs |-> <<"ERC721: invalid token ID">>,
      message |-> "call revert exception"],
     [reason |-> Null, errorArgs |-> <<"INVALID TOKEN ID">>, message |-> "call revert exception"],
     [reason |-> "processing response error", message |-> "Invalid token ID"]}

\* ---- GET /position-info (positionInfo.ts) ----

InitInfo ==
    /\ \E id \in PositionAddresses : req = Request("info", "", id)
    /\ retry = Idle /\ fee = Idle /\ pair = Idle

\* if (!positionAddress) throw badRequest(...)
InfoCheckId ==
    /\ req.op = "info" /\ req.pc = "start"
    /\ req' = IF falsy(req.positionAddress)
              THEN Throw(req, badRequest("Position token ID is required"))
              ELSE [req EXCEPT !.pc = "positions"]
    /\ UNCHANGED <<retry, fee, pair>>

\* const positionDetails = await positionManager.positions(positionAddress);
InfoPositions ==
    /\ req.op = "info" /\ req.pc = "positions"
    /\ \/ \E s \in ScenarioIds :
             req' = [Call(req, "positionManager.positions") EXCEPT !.pc = "tokens", !.scen = s,
                                !.positionDetails = Scenarios[s].details]
       \/ \E e \in PositionsErrors : req' = Throw(Call(req, "positionManager.positions"), e)
    /\ UNCHANGED <<retry, fee, pair>>

\* const token0 = await uniswap.getToken(...); const token1 = await uniswap.getToken(...);
InfoTokens ==
    /\ req.op = "info" /\ req.pc = "tokens"
    /\ \/ req' = [Call(req, "uniswap.getToken") EXCEPT !.pc = "fees", !.token0 = Scenarios[req.scen].token0,
                             !.token1 = Scenarios[req.scen].token1]
       \/ req' = Throw(Call(req, "uniswap.getToken"), Error("Token not found"))
    /\ UNCHANGED <<retry, fee, pair>>

\* The fee block, lines 76-181.
InfoFees ==
    /\ req.op = "info" /\ req.pc = "fees"
    /\ \E fails \in FailPatterns :
          LET after == FeeBlock(Call(req, "poolContract"), fails)
          IN  req' = IF after.pc = "fees" THEN [after EXCEPT !.pc = "pool"] ELSE after
    /\ UNCHANGED <<retry, fee, pair>>

baseOfSwapped(isBase0, x0, x1) == IF isBase0 THEN x1 ELSE x0

\* isBaseToken0 ? [x0, x1] : [x1, x0], first component.
baseOf(isBase0, x0, x1) == IF isBase0 THEN x0 ELSE x1

\* isBaseToken0 ? [x0, x1] : [x1, x0], second component.
quoteOf(isBase0, x0, x1) == IF isBase0 THEN x1 ELSE x0

\* The PositionInfo object of lines 183-240 (prices left out: they come from the
\* SDK's tick math).
PositionInfo(r, address) ==
    LET scen == Scenarios[r.scen]
        feeAmount0 == formatTokenAmount(r.totalFee0, r.token0.decimals)
        feeAmount1 == formatTokenAmount(r.totalFee1, r.token1.decimals)
        token0Amount == formatTokenAmount(scen.amount0, r.token0.decimals)
        token1Amount == formatTokenAmount(scen.amount1, r.token1.decimals)
        isBase0 == isBaseToken0(r.token0, r.token1)
    IN  [address |-> address,
         baseTokenAddress |-> baseOf(isBase0, r.token0.address, r.token1.address),
         quoteTokenAddress |-> quoteOf(isBase0, r.token0.address, r.token1.address),
         baseTokenAmount |-> baseOf(isBase0, token0Amount, token1Amount),
         quoteTokenAmount |-> quoteOf(isBase0, token0Amount, token1Amount),
         baseFeeAmount |-> baseOf(isBase0, feeAmount0, feeAmount1),
         quoteFeeAmount |-> quoteOf(isBase0, feeAmount0, feeAmount1),
         lowerBinId |-> r.positionDetails.tickLower,
         upperBinId |-> r.positionDetails.tickUpper]

\* const pool = await uniswap.getV3Pool(...); if (!pool) throw notFound(...);
\* then the result is assembled and returned through the route.
InfoPool ==
    /\ req.op = "info" /\ req.pc = "pool"
    /\ \/ req' = [Call(req, "uniswap.getV3Pool") EXCEPT !.pc = "done",
                             !.response = [status |-> 200,
                                           body |-> PositionInfo(req, req.positionAddress)]]
       \/ req' = Throw(Call(req, "uniswap.getV3Pool"), notFound("Pool not found for position"))
       \/ req' = Throw(Call(req, "uniswap.getV3Pool"), Error("missing response"))
    /\ UNCHANGED <<retry, fee, pair>>

\* The message of the route's generic failure.
RouteFailure(op) ==
    CASE op = "info" -> "Failed to get position info"
      [] op = "owned" -> "Failed to fetch positions"
      [] op = "close" -> "Failed to close position"
      [] op = "meteora" -> "Internal server error"

\* catch (e) { logger.error(e); if (e.statusCode) throw e;
\*             throw fastify.httpErrors.internalServerError(...) }
RouteCatch ==
    /\ req.pc = "caught"
    /\ LET e == IF HasStatusCode(req.error) THEN req.error
                ELSE internalServerError(RouteFailure(req.op))
       IN  req' = [req EXCEPT !.pc = "done", !.logged = Append(@, req.error),
                              !.response = [status |-> e.statusCode, message |-> e.message]]
    /\ UNCHANGED <<retry, fee, pair>>

NextInfo == InfoCheckId \/ InfoPositions \/ InfoTokens \/ InfoFees \/ InfoPool

\* ---- POST /close-position (closePosition.ts 25-362) ----

WalletAddresses == {"", "0xW"}

InitClose ==
    /\ \E w \in WalletAddresses, id \in PositionAddresses : req = Request("close", w, id)
    /\ retry = Idle /\ fee = Idle /\ pair = Idle

\* The route: if (!walletAddress) { walletAddress = await uniswap.getFirstWalletAddress();
\* if (!walletAddress) throw badRequest(...) }
CloseRoute ==
    /\ req.op = "close" /\ req.pc = "start"
    /\ \/ /\ ~falsy(req.walletAddress)
          /\ req' = [req EXCEPT !.pc = "validate"]
       \/ /\ falsy(req.walletAddress)
          /\ \/ req' = [Call(req, "uniswap.getFirstWalletAddress") EXCEPT !.pc = "validate", !.walletAddress = "0xW"]
             \/ req' = Throw(Call(req, "uniswap.getFirstWalletAddress"),
                             badRequest("No wallet address provided and no default wallet found"))
    /\ UNCHANGED <<retry, fee, pair>>

\* if (!positionAddress) throw httpErrors.badRequest('Missing required parameters');
CloseCheckId ==
    /\ req.op = "close" /\ req.pc = "validate"
    /\ req' = IF falsy(req.positionAddress)
              THEN Throw(req, badRequest("Missing required parameters"))
              ELSE [req EXCEPT !.pc = "wallet"]
    /\ UNCHANGED <<retry, fee, pair>>

\* const wallet = await ethereum.getWallet(walletAddress); if (!wallet) throw badRequest(...)
CloseWallet ==
    /\ req.op = "close" /\ req.pc = "wallet"
    /\ \/ req' = [Call(req, "ethereum.getWallet") EXCEPT !.pc = "ownership"]
       \/ req' = Throw(Call(req, "ethereum.getWallet"), badRequest("Wallet not found"))
    /\ UNCHANGED <<retry, fee, pair>>

\* What uniswap.checkNFTOwnership rejects with.
OwnershipErrors ==
    {Error("Position 42 is not owned by 0xW"), Error("Position 42 Is Not Owned By 0xW"),
     Error("missing response"), Error("ERC721: invalid token ID")}

includesNotOwnedByAnyCase(message) ==
    includes(toLowerCase(Chars(message)), Chars("is not owned by"))

\* error.message.includes('is not owned by')
includesNotOwnedBy(message) == includes(Chars(message), Chars("is not owned by"))

ownershipErrorAlwaysBadRequest(error) == badRequest(error.message)

\* if (error.message.includes('is not owned by')) throw httpErrors.forbidden(error.message);
\* throw httpErrors.badRequest(error.message);
ownershipError(error) ==
    IF includesNotOwnedBy(error.message)
    THEN forbidden(error.message) ELSE badRequest(error.message)

\* try { await uniswap.checkNFTOwnership(...) } catch (error) { forbidden or badRequest }
CloseOwnership ==
    /\ req.op = "close" /\ req.pc = "ownership"
    /\ \/ req' = [Call(req, "uniswap.checkNFTOwnership") EXCEPT !.pc = "positions"]
       \/ \E e \in OwnershipErrors :
             req' = Throw([Call(req, "uniswap.checkNFTOwnership")
                             EXCEPT !.thrown = Append(@, Rejected("uniswap.checkNFTOwnership", e))],
                          ownershipError(e))
    /\ UNCHANGED <<retry, fee, pair>>

\* err?.errorArgs?.[0]
firstErrorArg(err) ==
    IF "errorArgs" \notin DOMAIN err THEN Undefined
    ELSE IF Len(err.errorArgs) = 0 THEN Undefined
    ELSE err.errorArgs[1]

\* String(err?.reason ?? err?.errorArgs?.[0] ?? err?.message ?? '')
errorMessage(err) ==
    Coalesce(Field(err, "reason"),
             Coalesce(firstErrorArg(err), Coalesce(Field(err, "message"), "")))

includesInvalidTokenIdCaseSensitive(message) ==
    includes(Chars(message), Chars("invalid token id"))

\* message.toLowerCase().includes('invalid token id')
includesInvalidTokenId(message) ==
    includes(toLowerCase(Chars(message)), Chars("invalid token id"))

\* try { position = await positionManager.positions(positionAddress) }
\* catch (err) { 'invalid token id' -> notFound('Position closed'); else throw err }
ClosePositions ==
    /\ req.op = "close" /\ req.pc = "positions"
    /\ \/ \E s \in ScenarioIds :
             req' = [Call(req, "positionManager.positions") EXCEPT !.pc = "tokens", !.scen = s,
                                !.positionDetails = Scenarios[s].details]
       \/ \E e \in PositionsErrors :
             req' = Throw([Call(req, "positionManager.positions")
                             EXCEPT !.thrown = Append(@, Rejected("positionManager.positions", e))],
                          IF includesInvalidTokenId(errorMessage(e))
                          THEN notFound("Position closed") ELSE e)
    /\ UNCHANGED <<retry, fee, pair>>

\* getToken twice, then: if (currentLiquidity.isZero() && tokensOwed0.isZero() &&
\* tokensOwed1.isZero()) throw badRequest('Position has already been closed ...')
CloseTokens ==
    /\ req.op = "close" /\ req.pc = "tokens"
    /\ \/ req' = IF /\ req.positionDetails.liquidity = 0
                    /\ req.positionDetails.tokensOwed0 = 0
                    /\ req.positionDetails.tokensOwed1 = 0
                 THEN Throw(Call(req, "uniswap.getToken"), badRequest("Position has already been closed or has no liquidity/fees to collect"))
                 ELSE [Call(req, "uniswap.getToken") EXCEPT !.pc = "fees", !.token0 = Scenarios[req.scen].token0,
                                  !.token1 = Scenarios[req.scen].token1]
       \/ req' = Throw(Call(req, "uniswap.getToken"), Error("Token not found"))
    /\ UNCHANGED <<retry, fee, pair>>

\* The fee block, lines 105-208, when the node treats the reads as `fails` says.
CloseFeesWhen(fails) ==
    /\ req.op = "close" /\ req.pc = "fees"
    /\ LET after == FeeBlock(Call(req, "poolContract"), fails)
       IN  req' = IF after.pc = "fees" THEN [after EXCEPT !.pc = "pool"] ELSE after
    /\ UNCHANGED <<retry, fee, pair>>

CloseFees == \E fails \in FailPatterns : CloseFeesWhen(fails)

amountMinRoundedUp(amount) == (amount * (10000 - 100) + 9999) \div 10000

\* amount.multiply(new Percent(1).subtract(new Percent(100, 10000))).quotient:
\* the fraction amount * 9900 / 10000, rounded down.
amountMin(amount) == (amount * (1 * 10000 - 100 * 1)) \div (1 * 10000)

\* Lines 216-262: the amounts of the SDK's Position for the whole liquidity,
\* their minimums, the fees as expected owed amounts, and what is handed to
\* NonfungiblePositionManager.removeCallParameters.
RemoveParams(r) ==
    [amount0 |-> Scenarios[r.scen].amount0, amount1 |-> Scenarios[r.scen].amount1,
     amount0Min |-> amountMin(Scenarios[r.scen].amount0),
     amount1Min |-> amountMin(Scenarios[r.scen].amount1),
     slippageTolerance |-> <<100, 10000>>,
     liquidityPercentage |-> <<10000, 10000>>,
     burnToken |-> TRUE,
     expectedCurrencyOwed0 |-> r.totalFee0, expectedCurrencyOwed1 |-> r.totalFee1,
     totalAmount0 |-> Scenarios[r.scen].amount0 + r.totalFee0,
     totalAmount1 |-> Scenarios[r.scen].amount1 + r.totalFee1]

\* const pool = await uniswap.getV3Pool(...); if (!pool) throw notFound(...);
\* then the parameters of the removal, without another await.
ClosePool ==
    /\ req.op = "close" /\ req.pc = "pool"
    /\ \/ req' = [Call(req, "uniswap.getV3Pool") EXCEPT !.pc = "submit",
                                                        !.removeParams = RemoveParams(req)]
       \/ req' = Throw(Call(req, "uniswap.getV3Pool"), notFound("Pool not found for position"))
       \/ req' = Throw(Call(req, "uniswap.getV3Pool"), Error("missing response"))
    /\ UNCHANGED <<retry, fee, pair>>

submitFailedRetried(r, e) == [r EXCEPT !.pc = "submit"]

\* A rejection of multicall is not caught in closePosition: it leaves the handler.
submitFailed(r, e) == Throw(r, e)

\* const txParams = await ethereum.prepareGasOptions(...);
\* const tx = await positionManagerWithSigner.multicall([calldata], txParams);
CloseSubmit ==
    /\ req.op = "close" /\ req.pc = "submit"
    /\ LET prepared == Call(req, "ethereum.prepareGasOptions")
           called == [Call(prepared, "positionManager.multicall") EXCEPT !.sent = @ + 1]
       IN  \/ req' = Throw(prepared, Error("missing response"))
           \/ req' = [called EXCEPT !.pc = "confirm"]
           \/ req' = submitFailed(called, Error("insufficient funds"))
    /\ UNCHANGED <<retry, fee, pair>>

\* What ethereum.handleTransactionExecution(tx) returns.
Receipts == {[transactionHash |-> "0xaa", status |-> st, gasUsed |-> 21000, effectiveGasPrice |-> 1]
                : st \in {0, 1}}

CloseResultLiquidityOnly(r, receipt) ==
    LET scen == Scenarios[r.scen]
        token0AmountRemoved == formatTokenAmount(scen.amount0, r.token0.decimals)
        token1AmountRemoved == formatTokenAmount(scen.amount1, r.token1.decimals)
        token0FeeAmount == formatTokenAmount(r.totalFee0, r.token0.decimals)
        token1FeeAmount == formatTokenAmount(r.totalFee1, r.token1.decimals)
        isBase0 == isBaseToken0(r.token0, r.token1)
    IN  [signature |-> receipt.transactionHash, status |-> receipt.status,
         data |-> [fee |-> formatTokenAmount(receipt.gasUsed * receipt.effectiveGasPrice, 18),
                   positionRentRefunded |-> 0,
                   baseTokenAmountRemoved |-> baseOf(isBase0, token0AmountRemoved, token1AmountRemoved),
                   quoteTokenAmountRemoved |-> quoteOf(isBase0, token0AmountRemoved, token1AmountRemoved),
                   baseFeeAmountCollected |-> baseOf(isBase0, token0FeeAmount, token1FeeAmount),
                   quoteFeeAmountCollected |-> quoteOf(isBase0, token0FeeAmount, token1FeeAmount)]]

\* The response of lines 288-320.
CloseResult(r, receipt) ==
    LET scen == Scenarios[r.scen]
        token0AmountRemoved == formatTokenAmount(scen.amount0 + r.totalFee0, r.token0.decimals)
        token1AmountRemoved == formatTokenAmount(scen.amount1 + r.totalFee1, r.token1.decimals)
        token0FeeAmount == formatTokenAmount(r.totalFee0, r.token0.decimals)
        token1FeeAmount == formatTokenAmount(r.totalFee1, r.token1.decimals)
        isBase0 == isBaseToken0(r.token0, r.token1)
    IN  [signature |-> receipt.transactionHash, status |-> receipt.status,
         data |-> [fee |-> formatTokenAmount(receipt.gasUsed * receipt.effectiveGasPrice, 18),
                   positionRentRefunded |-> 0,
                   baseTokenAmountRemoved |-> baseOf(isBase0, token0AmountRemoved, token1AmountRemoved),
                   quoteTokenAmountRemoved |-> quoteOf(isBase0, token0AmountRemoved, token1AmountRemoved),
                   baseFeeAmountCollected |-> baseOf(isBase0, token0FeeAmount, token1FeeAmount),
                   quoteFeeAmountCollected |-> quoteOf(isBase0, token0FeeAmount, token1FeeAmount)]]

\* const receipt = await ethereum.handleTransactionExecution(tx); return {...}
CloseConfirm ==
    /\ req.op = "close" /\ req.pc = "confirm"
    /\ \/ \E receipt \in Receipts :
             req' = [Call(req, "ethereum.handleTransactionExecution") EXCEPT !.pc = "done",
                                !.response = [status |-> 200, body |-> CloseResult(req, receipt)]]
       \/ req' = Throw(Call(req, "ethereum.handleTransactionExecution"), Error("transaction failed"))
    /\ UNCHANGED <<retry, fee, pair>>

NextClose ==
    \/ CloseRoute \/ CloseCheckId \/ CloseWallet \/ CloseOwnership \/ ClosePositions
    \/ CloseTokens \/ CloseFees \/ ClosePool \/ CloseSubmit \/ CloseConfirm

\* ---- GET /positions-owned (positionsOwned.ts) ----

\* Largest balanceOf(walletAddress) of an owner.
MaxPositions == 2

InitOwned ==
    /\ \E w \in WalletAddresses : req = Request("owned", w, "")
    /\ retry = Idle /\ fee = Idle /\ pair = Idle

\* if (!walletAddress) { walletAddress = await uniswap.getFirstWalletAddress();
\* if (!walletAddress) throw badRequest(...) }
OwnedWallet ==
    /\ req.op = "owned" /\ req.pc = "start"
    /\ \/ /\ ~falsy(req.walletAddress)
          /\ req' = [req EXCEPT !.pc = "balance"]
       \/ /\ falsy(req.walletAddress)
          /\ \/ req' = [Call(req, "uniswap.getFirstWalletAddress") EXCEPT !.pc = "balance", !.walletAddress = "0xW"]
             \/ req' = Throw(Call(req, "uniswap.getFirstWalletAddress"),
                             badRequest("No wallet address provided and no default wallet found"))
    /\ UNCHANGED <<retry, fee, pair>>

\* const numPositions = (await positionManager.balanceOf(walletAddress)).toNumber();
\* if (numPositions === 0) return [];
OwnedBalance ==
    /\ req.op = "owned" /\ req.pc = "balance"
    /\ \/ \E n \in 0..MaxPositions :
             req' = IF n = 0
                    THEN [Call(req, "positionManager.balanceOf") EXCEPT !.pc = "done", !.response = [status |-> 200, body |-> <<>>]]
                    ELSE [Call(req, "positionManager.balanceOf") EXCEPT !.pc = "tokenId", !.numPositions = n]
       \/ req' = Throw(Call(req, "positionManager.balanceOf"), Error("missing response"))
    /\ UNCHANGED <<retry, fee, pair>>

\* The for statement's i++ and test, entered after an iteration ended (by
\* falling off its end, by continue or through the catch).
OwnedAdvance(r) ==
    IF r.i + 1 < r.numPositions
    THEN [r EXCEPT !.i = @ + 1, !.pc = "tokenId"]
    ELSE [r EXCEPT !.i = @ + 1, !.pc = "return"]

\* What the chain did to the iteration that ends: `failed` when one of its
\* calls was rejected or its pool is missing, else the position it was about.
Iteration(r, failed) ==
    [r EXCEPT !.iterations = Append(@, [scen |-> IF failed THEN 0 ELSE r.scen, failed |-> failed])]

OwnedCaughtAbortsListing(r) == Throw(Iteration(r, TRUE), Error("missing response"))

\* catch (err) { logger.warn(`Error fetching position ${i} ...`) }
OwnedCaught(r) ==
    OwnedAdvance([Iteration(r, TRUE) EXCEPT !.warned = Append(@, "Error fetching position")])

\* const tokenId = await positionManager.tokenOfOwnerByIndex(walletAddress, i);
\* The locals of the iteration before are gone.
OwnedTokenId ==
    /\ req.op = "owned" /\ req.pc = "tokenId"
    /\ LET fresh == [Call(req, "positionManager.tokenOfOwnerByIndex") EXCEPT !.scen = 0, !.positionDetails = Undefined,
                                !.token0 = Undefined, !.token1 = Undefined,
                                !.totalFee0 = 0, !.totalFee1 = 0, !.inside0 = 0, !.inside1 = 0,
                                !.fetch = "none", !.exhausted = {}]
       IN  \/ \E s \in ScenarioIds : req' = [fresh EXCEPT !.pc = "positions", !.scen = s]
           \/ req' = OwnedCaught(fresh)
    /\ UNCHANGED <<retry, fee, pair>>

\* const positionDetails = await positionManager.positions(tokenId);
\* if (positionDetails.liquidity.eq(0)) continue;
OwnedPositions ==
    /\ req.op = "owned" /\ req.pc = "positions"
    /\ \/ req' = IF Scenarios[req.scen].details.liquidity = 0
                 THEN OwnedAdvance(Iteration([Call(req, "positionManager.positions") EXCEPT
                                       !.positionDetails = Scenarios[req.scen].details], FALSE))
                 ELSE [Call(req, "positionManager.positions") EXCEPT !.pc = "tokens", !.positionDetails = Scenarios[req.scen].details]
       \/ req' = OwnedCaught(Call(req, "positionManager.positions"))
    /\ UNCHANGED <<retry, fee, pair>>

\* getToken twice, then const pool = await uniswap.getV3Pool(...);
\* if (!pool) { logger.warn(...); continue; }
OwnedPool ==
    /\ req.op = "owned" /\ req.pc = "tokens"
    /\ LET tokens == Call(req, "uniswap.getToken")
           pool == Call(tokens, "uniswap.getV3Pool")
       IN  \/ req' = [pool EXCEPT !.pc = "fees", !.token0 = Scenarios[req.scen].token0,
                                  !.token1 = Scenarios[req.scen].token1]
           \/ req' = OwnedAdvance(Iteration([pool EXCEPT
                                   !.warned = Append(@, "Pool not found for position")], TRUE))
           \/ req' = OwnedCaught(tokens)
           \/ req' = OwnedCaught(pool)
    /\ UNCHANGED <<retry, fee, pair>>

\* The fee block (lines 129-229) and positions.push({...}), which follow the
\* fetch without another await.
OwnedFees ==
    /\ req.op = "owned" /\ req.pc = "fees"
    /\ \E fails \in FailPatterns :
          LET after == FeeBlock(Call(req, "poolContract"), fails)
          IN  req' = IF after.pc = "fees"
                     THEN OwnedAdvance(Iteration([after EXCEPT
                              !.positions = Append(@, PositionInfo(after, Scenarios[after.scen].tokenId))],
                              FALSE))
                     ELSE OwnedCaught([after EXCEPT !.pc = "fees", !.error = Undefined])
    /\ UNCHANGED <<retry, fee, pair>>

\* return positions;
OwnedReturn ==
    /\ req.op = "owned" /\ req.pc = "return"
    /\ req' = [req EXCEPT !.pc = "done", !.response = [status |-> 200, body |-> req.positions]]
    /\ UNCHANGED <<retry, fee, pair>>

NextOwned ==
    \/ OwnedWallet \/ OwnedBalance \/ OwnedTokenId \/ OwnedPositions \/ OwnedPool
    \/ OwnedFees \/ OwnedReturn

\* ---- POST /close-position of the Meteora connector (closePosition.ts 383-585) ----

SOL_NATIVE_MINT == "So11111111111111111111111111111111111111112"

\* Most transactions dlmmPool.removeLiquidity returns for one position.
MaxTxs == 2

\* A position account on the chain, its pool's two mints, what
\* meteora.getPositionInfo reports as its liquidity and fees, and the lamports of
\* the account (0: getAccountInfo returns null).  Amounts are in the smallest unit.
MeteoraPosition(address, tokenX, tokenY, amountX, amountY, feeX, feeY, lamports) ==
    [address |-> address, tokenX |-> tokenX, tokenY |-> tokenY,
     baseTokenAmount |-> amountX, quoteTokenAmount |-> amountY,
     baseFeeAmount |-> feeX, quoteFeeAmount |-> feeY, lamports |-> lamports]

MeteoraPositions ==
    << MeteoraPosition("P1", SOL_NATIVE_MINT, "USDC", 100, 40, 3, 2, 20),
       MeteoraPosition("P2", "USDC", SOL_NATIVE_MINT, 0, 0, 0, 0, 20),
       MeteoraPosition("P3", "BONK", "USDC", 0, 0, 0, 7, 0) >>

\* What solana.sendAndConfirmTransaction returns for the i-th transaction.
TxFees == {5, 6}
TxResult(i, txFee) == [signature |-> <<"sig", i>>, fee |-> txFee]

\* What solana.extractBalanceChangesAndFee reports for the two mints.
BalanceChanges == {<<0, 0>>, <<118, -42>>, <<2, 60>>}

\* A request on entry to the route handler.
MeteoraRequest(walletAddress, positionAddress) ==
    [op |-> "meteora", pc |-> "start", walletAddress |-> walletAddress,
     positionAddress |-> positionAddress, position |-> 0,
     baseFeeAmount |-> 0, quoteFeeAmount |-> 0, positionRentRefunded |-> 0,
     transactions |-> 0, i |-> 0, totalFee |-> 0, lastTxFee |-> 0, lastSignature |-> "",
     txlog |-> <<>>, results |-> <<>>, txData |-> Undefined, balanceChanges |-> <<>>,
     queried |-> <<>>,
     sent |-> 0, warned |-> <<>>,
     calls |-> {}, chain |-> 0, thrown |-> <<>>, error |-> Undefined, logged |-> <<>>,
     response |-> Undefined]

MeteoraAddresses == {"P1", "P2", "P3", "P9"}

InitMeteora ==
    /\ \E id \in MeteoraAddresses : req = MeteoraRequest("0xW", id)
    /\ retry = Idle /\ fee = Idle /\ pair = Idle

MeteoraCatchAfterSimulationIgnored(r, error) ==
    IF r.pc = "simulate"
    THEN [r EXCEPT !.logged = Append(@, error), !.pc = "send"]
    ELSE Throw([r EXCEPT !.logged = Append(@, error)], error)

\* catch (error) { logger.error('Close position error:', ...); throw error; }
MeteoraCatch(r, error) == Throw([r EXCEPT !.logged = Append(@, error)], error)

\* const wallet = await solana.getWallet(walletAddress);
MeteoraWallet ==
    /\ req.op = "meteora" /\ req.pc = "start"
    /\ LET r == Call(req, "solana.getWallet")
       IN  \/ req' = [r EXCEPT !.pc = "rawPosition"]
           \/ req' = MeteoraCatch(r, Error("Wallet not found"))
    /\ UNCHANGED <<retry, fee, pair>>

\* const positionResult = await meteora.getRawPosition(positionAddress, wallet.publicKey);
\* if (!positionResult || !positionResult.position) throw notFound(...)
MeteoraRawPosition ==
    /\ req.op = "meteora" /\ req.pc = "rawPosition"
    /\ LET r == Call(req, "meteora.getRawPosition")
           found == {k \in DOMAIN MeteoraPositions : MeteoraPositions[k].address = req.positionAddress}
       IN  \/ /\ found # {}
              /\ req' = [r EXCEPT !.pc = "pool", !.position = CHOOSE k \in found : TRUE]
           \/ /\ found = {}
              /\ req' = MeteoraCatch(r, notFound("Position not found"))
           \/ req' = MeteoraCatch(r, Error("missing response"))
    /\ UNCHANGED <<retry, fee, pair>>

\* getDlmmPool, getToken twice, then
\* const positionInfo = await meteora.getPositionInfo(positionAddress, wallet.publicKey);
MeteoraPositionInfo ==
    /\ req.op = "meteora" /\ req.pc = "pool"
    /\ LET pool == Call(Call(req, "meteora.getDlmmPool"), "solana.getToken")
           r == Call(pool, "meteora.getPositionInfo")
       IN  \/ req' = [r EXCEPT !.pc = "accountInfo",
                               !.baseFeeAmount = MeteoraPositions[req.position].baseFeeAmount,
                               !.quoteFeeAmount = MeteoraPositions[req.position].quoteFeeAmount]
           \/ req' = MeteoraCatch(pool, Error("missing response"))
           \/ req' = MeteoraCatch(r, Error("missing response"))
    /\ UNCHANGED <<retry, fee, pair>>

\* const positionAccountInfo = await solana.connection.getAccountInfo(position.publicKey);
\* const positionRentLamports = positionAccountInfo?.lamports ?? 0; warn when it is null.
MeteoraAccountInfo ==
    /\ req.op = "meteora" /\ req.pc = "accountInfo"
    /\ LET r == Call(req, "connection.getAccountInfo")
           lamports == MeteoraPositions[req.position].lamports
       IN  \/ req' = [r EXCEPT !.pc = "removeLiquidity", !.positionRentRefunded = lamports,
                               !.warned = IF lamports = 0
                                          THEN Append(@, "Position account not found before close")
                                          ELSE @]
           \/ req' = MeteoraCatch(r, Error("missing response"))
    /\ UNCHANGED <<retry, fee, pair>>

\* const removeLiquidityTxs = await dlmmPool.removeLiquidity({...});
\* const transactions = Array.isArray(removeLiquidityTxs) ? removeLiquidityTxs : [removeLiquidityTxs];
MeteoraRemoveLiquidity ==
    /\ req.op = "meteora" /\ req.pc = "removeLiquidity"
    /\ LET r == Call(req, "dlmmPool.removeLiquidity")
       IN  \/ \E k \in 1..MaxTxs : req' = [r EXCEPT !.pc = "simulate", !.transactions = k]
           \/ req' = MeteoraCatch(r, Error("missing response"))
    /\ UNCHANGED <<retry, fee, pair>>

\* What solana.simulateWithErrorHandling rejects with.
SimulationErrors ==
    {badRequest("Transaction simulation failed: insufficient funds"), Error("Simulation failed")}

\* tx.feePayer = wallet.publicKey; await solana.simulateWithErrorHandling(tx);
MeteoraSimulate ==
    /\ req.op = "meteora" /\ req.pc = "simulate"
    /\ LET r == [Call(req, "solana.simulateWithErrorHandling")
                    EXCEPT !.txlog = Append(@, <<"simulate", req.i + 1>>)]
       IN  \/ req' = [r EXCEPT !.pc = "send"]
           \/ \E e \in SimulationErrors : req' = MeteoraCatch([r EXCEPT !.thrown =
                                              Append(@, Rejected("solana.simulateWithErrorHandling", e))], e)
    /\ UNCHANGED <<retry, fee, pair>>

\* solana.sendAndConfirmTransaction(tx, [wallet]) is called: the transaction
\* goes to the network, or the call fails on the way.
MeteoraSend ==
    /\ req.op = "meteora" /\ req.pc = "send"
    /\ LET r == [Call(req, "solana.sendAndConfirmTransaction")
                    EXCEPT !.sent = @ + 1, !.txlog = Append(@, <<"send", req.i + 1>>)]
       IN  \/ req' = [r EXCEPT !.pc = "confirm"]
           \/ req' = MeteoraCatch(r, Error("blockhash not found"))
    /\ UNCHANGED <<retry, fee, pair>>

MeteoraAdvanceWithoutSimulation(r) ==
    IF r.i + 1 < r.transactions
    THEN [r EXCEPT !.i = @ + 1, !.pc = "send"]
    ELSE [r EXCEPT !.i = @ + 1, !.pc = "getTransaction"]

\* The for statement's i++ and test after an iteration.
MeteoraAdvance(r) ==
    IF r.i + 1 < r.transactions
    THEN [r EXCEPT !.i = @ + 1, !.pc = "simulate"]
    ELSE [r EXCEPT !.i = @ + 1, !.pc = "getTransaction"]

accumulateLastOnly(r, result) ==
    [r EXCEPT !.totalFee = result.fee, !.lastTxFee = result.fee,
              !.lastSignature = result.signature]

\* totalFee += result.fee; lastTxFee = result.fee; lastSignature = result.signature;
accumulate(r, result) ==
    [r EXCEPT !.totalFee = @ + result.fee, !.lastTxFee = result.fee,
              !.lastSignature = result.signature]

\* const result = await solana.sendAndConfirmTransaction(tx, [wallet]) returns:
\* the results the handler has received are kept in `results`.
MeteoraConfirmed ==
    /\ req.op = "meteora" /\ req.pc = "confirm"
    /\ \/ \E txFee \in TxFees :
             LET result == TxResult(req.i + 1, txFee)
             IN  req' = MeteoraAdvance(accumulate(
                            [req EXCEPT !.results = Append(@, result),
                                        !.txlog = Append(@, <<"confirmed", req.i + 1>>)],
                            result))
       \/ req' = MeteoraCatch(req, Error("transaction expired"))
    /\ UNCHANGED <<retry, fee, pair>>

ifConfirmedElseThrow(r, txData) ==
    IF txData # Null
    THEN [r EXCEPT !.pc = "extract"]
    ELSE MeteoraCatch(r, notFound("Transaction not found"))

ifConfirmedPendingWithFee(r, txData) ==
    IF txData # Null
    THEN [r EXCEPT !.pc = "extract"]
    ELSE [r EXCEPT !.pc = "done",
                   !.response = [status |-> 200,
                                 body |-> [signature |-> r.lastSignature, status |-> 0,
                                           data |-> [fee |-> r.totalFee]]]]

\* const confirmed = txData !== null;
\* if (confirmed && txData) {...} else { return { signature, status: 0 } }
ifConfirmed(r, txData) ==
    IF txData # Null
    THEN [r EXCEPT !.pc = "extract"]
    ELSE [r EXCEPT !.pc = "done",
                   !.response = [status |-> 200,
                                 body |-> [signature |-> r.lastSignature, status |-> 0]]]

\* const signature = lastSignature;
\* const txData = await solana.connection.getTransaction(signature, ...);
MeteoraGetTransaction ==
    /\ req.op = "meteora" /\ req.pc = "getTransaction"
    /\ LET r == [Call(req, "connection.getTransaction")
                    EXCEPT !.queried = Append(@, <<"getTransaction", req.lastSignature>>)]
       IN  \/ \E txData \in {Null, "txData"} :
                 req' = ifConfirmed([r EXCEPT !.txData = txData], txData)
           \/ req' = MeteoraCatch(r, Error("missing response"))
    /\ UNCHANGED <<retry, fee, pair>>

mathAbs(x) == IF x < 0 THEN -x ELSE x
mathMax(x, y) == IF x >= y THEN x ELSE y

amountRemovedRentOnEverySide(isSol, received, feeAmount, positionRentRefunded, txFeeSol) ==
    mathMax(0, received - feeAmount - positionRentRefunded + txFeeSol)

\* The amount removed on one side: Math.max(0, received - fee), and on the
\* side of the native mint Math.max(0, received - fee - rent + txFee).
amountRemoved(isSol, received, feeAmount, positionRentRefunded, txFeeSol) ==
    IF isSol
    THEN mathMax(0, received - feeAmount - positionRentRefunded + txFeeSol)
    ELSE mathMax(0, received - feeAmount)

MeteoraResultTotalFeeAddedBack(r, balanceChanges) ==
    LET pos == MeteoraPositions[r.position]
        totalTokenXReceived == mathAbs(balanceChanges[1])
        totalTokenYReceived == mathAbs(balanceChanges[2])
        txFeeSol == r.totalFee
        isBaseSol == pos.tokenX = SOL_NATIVE_MINT
        isQuoteSol == pos.tokenY = SOL_NATIVE_MINT
    IN  [signature |-> r.lastSignature, status |-> 1,
         data |-> [fee |-> r.totalFee,
                   positionRentRefunded |-> r.positionRentRefunded,
                   baseTokenAmountRemoved |->
                       amountRemoved(isBaseSol, totalTokenXReceived, r.baseFeeAmount,
                                     r.positionRentRefunded, txFeeSol),
                   quoteTokenAmountRemoved |->
                       amountRemoved(isQuoteSol, totalTokenYReceived, r.quoteFeeAmount,
                                     r.positionRentRefunded, txFeeSol),
                   baseFeeAmountCollected |-> r.baseFeeAmount,
                   quoteFeeAmountCollected |-> r.quoteFeeAmount]]

\* The result of lines 483-521.
MeteoraResult(r, balanceChanges) ==
    LET pos == MeteoraPositions[r.position]
        totalTokenXReceived == mathAbs(balanceChanges[1])
        totalTokenYReceived == mathAbs(balanceChanges[2])
        txFeeSol == r.lastTxFee
        isBaseSol == pos.tokenX = SOL_NATIVE_MINT
        isQuoteSol == pos.tokenY = SOL_NATIVE_MINT
    IN  [signature |-> r.lastSignature, status |-> 1,
         data |-> [fee |-> r.totalFee,
                   positionRentRefunded |-> r.positionRentRefunded,
                   baseTokenAmountRemoved |->
                       amountRemoved(isBaseSol, totalTokenXReceived, r.baseFeeAmount,
                                     r.positionRentRefunded, txFeeSol),
                   quoteTokenAmountRemoved |->
                       amountRemoved(isQuoteSol, totalTokenYReceived, r.quoteFeeAmount,
                                     r.positionRentRefunded, txFeeSol),
                   baseFeeAmountCollected |-> r.baseFeeAmount,
                   quoteFeeAmountCollected |-> r.quoteFeeAmount]]

\* const { balanceChanges } = await solana.extractBalanceChangesAndFee(...); return {...}
MeteoraExtract ==
    /\ req.op = "meteora" /\ req.pc = "extract"
    /\ LET r == [Call(req, "solana.extractBalanceChangesAndFee")
                    EXCEPT !.queried = Append(@, <<"extractBalanceChangesAndFee", req.lastSignature>>)]
       IN  \/ \E balanceChanges \in BalanceChanges :
                 req' = [r EXCEPT !.pc = "done", !.balanceChanges = balanceChanges,
                                  !.response = [status |-> 200,
                                                body |-> MeteoraResult(r, balanceChanges)]]
           \/ req' = MeteoraCatch(r, Error("missing response"))
    /\ UNCHANGED <<retry, fee, pair>>

NextMeteora ==
    \/ MeteoraWallet \/ MeteoraRawPosition \/ MeteoraPositionInfo \/ MeteoraAccountInfo
    \/ MeteoraRemoveLiquidity \/ MeteoraSimulate \/ MeteoraSend \/ MeteoraConfirmed
    \/ MeteoraGetTransaction \/ MeteoraExtract

Init == InitInfo \/ InitClose \/ InitOwned \/ InitMeteora

Next == NextInfo \/ NextClose \/ NextOwned \/ NextMeteora \/ RouteCatch

Spec == Init /\ [][Next]_vars

\* The runs of the two close-position routes alone, where every awaited call
\* eventually returns or fails: a handler that can go on does go on.
InitCloseRuns == InitClose \/ InitMeteora

NextCloseRuns == NextClose \/ NextMeteora \/ RouteCatch

\* Every awaited call settles.  For the fee block, whose five reads are retried
\* a bounded number of times, the condition is WF_vars(CloseFees) written out:
\* CloseFees is enabled exactly while the block is pending and each of its
\* steps ends that.
FeeBlockPending == req.op = "close" /\ req.pc = "fees"

SpecCloseRuns ==
    /\ InitCloseRuns /\ [][NextCloseRuns]_vars
    /\ WF_vars(CloseRoute \/ CloseCheckId \/ CloseWallet \/ CloseOwnership \/ ClosePositions
                 \/ CloseTokens \/ ClosePool \/ CloseSubmit \/ CloseConfirm
                 \/ NextMeteora \/ RouteCatch)
    /\ []<>(~FeeBlockPending)

\* ---- Claims about the routes ----

\* The request has produced a position's fee report: the 200 response of
\* position-info or close-position, or the entry positions-owned has just pushed.
HasReport ==
    \/ req.op \in {"info", "close"} /\ req.pc = "done" /\ req.response.status = 200
    \/ req.op = "owned" /\ req.fetch # "none" /\ req.pc \in {"tokenId", "return", "done"}

\* The fees and amounts of that report, and the addresses where it has them.
Report ==
    CASE req.op = "info" ->
             [baseFee |-> req.response.body.baseFeeAmount,
              quoteFee |-> req.response.body.quoteFeeAmount,
              baseAmount |-> req.response.body.baseTokenAmount,
              quoteAmount |-> req.response.body.quoteTokenAmount,
              base |-> req.response.body.baseTokenAddress,
              quote |-> req.response.body.quoteTokenAddress]
      [] req.op = "owned" ->
             [baseFee |-> Last(req.positions).baseFeeAmount,
              quoteFee |-> Last(req.positions).quoteFeeAmount,
              baseAmount |-> Last(req.positions).baseTokenAmount,
              quoteAmount |-> Last(req.positions).quoteTokenAmount,
              base |-> Last(req.positions).baseTokenAddress,
              quote |-> Last(req.positions).quoteTokenAddress]
      [] req.op = "close" ->
             [baseFee |-> req.response.body.data.baseFeeAmountCollected,
              quoteFee |-> req.response.body.data.quoteFeeAmountCollected,
              baseAmount |-> req.response.body.data.baseTokenAmountRemoved,
              quoteAmount |-> req.response.body.data.quoteTokenAmountRemoved]

\* An amount of `raw` units of a token, as the routes report it.
Reported(raw, token) == [raw |-> raw, decimals |-> token.decimals]

\* Failures of the steps that follow the fee block.
LaterErrors ==
    {notFound("Pool not found for position"), Error("missing response"),
     Error("insufficient funds"), Error("transaction failed")}

\* C3: in position-info, positions-owned and close-position, when one of the
\* five accumulator reads exhausts its retries the fee calculation is skipped,
\* the fee reported for both tokens is exactly tokensOwed, and the request does
\* not fail because of it: it goes on to its next step and normal result.
C3_ExhaustedReadDegradesToTokensOwed ==
    (req.pc # "idle" /\ req.op \in {"info", "owned", "close"} /\ req.exhausted # {}) =>
        /\ req.fetch = "rejected"
        /\ req.totalFee0 = req.positionDetails.tokensOwed0
        /\ req.totalFee1 = req.positionDetails.tokensOwed1
        /\ req.pc # "fees"
        /\ req.pc = "caught" => req.error \in LaterErrors
        /\ (req.pc = "done" /\ req.response.status # 200) => req.error \in LaterErrors
        /\ HasReport =>
               {Report.baseFee, Report.quoteFee}
                   = {Reported(req.positionDetails.tokensOwed0, req.token0),
                      Reported(req.positionDetails.tokensOwed1, req.token1)}

\* close-position answers 200 with the owed fees 5 and 7 although slot0 never
\* answered and the accumulators would have added uncollected fees.
C3_Witness ==
    /\ req.op = "close" /\ req.pc = "done" /\ req.response.status = 200
    /\ req.exhausted = {"slot0"} /\ req.positionDetails.liquidity = 1000
    /\ req.positionDetails.tokensOwed0 = 5 /\ req.scen = 2
    /\ req.response.body.data.quoteFeeAmountCollected.raw = 5
    /\ req.response.body.data.baseFeeAmountCollected.raw = 7

\* feeGrowthInside of one token, from the accumulators the chain holds.
ExpectedInside(global, lowerOutside, upperOutside, pool, details) ==
    LET below == IF pool.tick >= details.tickLower
                 THEN lowerOutside ELSE ClampedSub(global, lowerOutside)
        above == IF pool.tick < details.tickUpper
                 THEN upperOutside ELSE ClampedSub(global, upperOutside)
    IN  ClampedSub(global, below + above)

\* tokensOwed + floor(liquidity * delta / 2^128)
ExpectedFee(owed, liquidity, inside, last) ==
    owed + (liquidity * ClampedSub(inside, last)) \div Q128

ExpectedFee0 ==
    LET pool == Scenarios[req.scen].pool
        d == req.positionDetails
    IN  ExpectedFee(d.tokensOwed0, d.liquidity,
                    ExpectedInside(pool.feeGrowthGlobal0X128, pool.lower.feeGrowthOutside0X128,
                                   pool.upper.feeGrowthOutside0X128, pool, d),
                    d.feeGrowthInside0LastX128)

ExpectedFee1 ==
    LET pool == Scenarios[req.scen].pool
        d == req.positionDetails
    IN  ExpectedFee(d.tokensOwed1, d.liquidity,
                    ExpectedInside(pool.feeGrowthGlobal1X128, pool.lower.feeGrowthOutside1X128,
                                   pool.upper.feeGrowthOutside1X128, pool, d),
                    d.feeGrowthInside1LastX128)

\* The position of the route tests: global0 = 100 Q128, outside 10 and 20 Q128,
\* tick 0 in [-10, 10], liquidity 1000, checkpoint 50 Q128, nothing owed.
WorkedExample ==
    /\ req.positionDetails = Details(1000, 0, 0, 50 * Q128, 0)
    /\ Scenarios[req.scen].pool = PoolState(100 * Q128, 0, 0, 10 * Q128, 0, 20 * Q128, 0)

\* C7: when the accumulator reads succeed, the fee close-position and
\* positions-owned report for each token is tokensOwed + floor(liquidity * delta
\* / 2^128), not tokensOwed alone. For the worked example feeGrowthInside0 is
\* 70 Q128 and the token0 (base) fee is 20000 although tokensOwed0 is 0.
C7_ReportedFeeIncludesUncollected ==
    (req.op \in {"close", "owned"} /\ HasReport /\ req.fetch = "fulfilled") =>
        /\ req.totalFee0 = ExpectedFee0 /\ req.totalFee1 = ExpectedFee1
        /\ {Report.baseFee, Report.quoteFee}
               = {Reported(ExpectedFee0, req.token0), Reported(ExpectedFee1, req.token1)}
        /\ WorkedExample =>
               /\ req.inside0 = 70 * Q128
               /\ req.totalFee0 = 20000
               /\ Report.baseFee.raw = 20000 /\ Report.baseFee.raw > 0

\* close-position on the worked example answers baseFeeAmountCollected 20000.
C7_Witness ==
    /\ req.op = "close" /\ req.pc = "done" /\ req.response.status = 200
    /\ req.fetch = "fulfilled" /\ WorkedExample
    /\ req.positionDetails.tokensOwed0 = 0
    /\ req.response.body.data.baseFeeAmountCollected = [raw |-> 20000, decimals |-> 0]

\* The tokens the rule of the specification allows as base, 0 for token0 and 1
\* for token1: one whose symbol is WETH; failing that the one with the smaller
\* case-insensitive address.
AllowedBase(token0, token1) ==
    LET wrapped == {k \in {0, 1} : (IF k = 0 THEN token0 ELSE token1).symbol = "WETH"}
        a0 == toLowerCase(token0.address)
        a1 == toLowerCase(token1.address)
    IN  IF wrapped # {} THEN wrapped
        ELSE IF StrLess(a0, a1) THEN {0}
        ELSE IF StrLess(a1, a0) THEN {1}
        ELSE {0, 1}

C10_InvalidTokenIdIsNotFound ==
    (req.op = "info" /\ req.pc = "done" /\ req.error = Error("Invalid token ID")) =>
        req.response.status = 404

\* position-info has answered a request whose position lookup raised "Invalid token ID".
C10_Witness ==
    /\ req.op = "info" /\ req.pc = "done" /\ req.error = Error("Invalid token ID")
    /\ req.positionAddress = "42"

\* ---- Claims about close-position ----

\* Rejections of the position lookup that say "invalid token id": in the
\* message of a plain Error, in the provider's reason, in the first error
\* argument when the reason is null; in any letter case.
InvalidTokenIdErrors ==
    {Error("Invalid token ID"),
     [reason |-> "ERC721: invalid token ID", errorArgs |-> <<"ERC721: invalid token ID">>,
      message |-> "call revert exception"],
     [reason |-> Null, errorArgs |-> <<"INVALID TOKEN ID">>, message |-> "call revert exception"]}

AlreadyClosed ==
    badRequest("Position has already been closed or has no liquidity/fees to collect")

\* The request has found its position, and the position has no liquidity and
\* no owed fees in either token.
EmptyPosition ==
    \/ /\ req.op = "close" /\ req.scen # 0
       /\ Scenarios[req.scen].details.liquidity = 0
       /\ Scenarios[req.scen].details.tokensOwed0 = 0
       /\ Scenarios[req.scen].details.tokensOwed1 = 0
    \/ /\ req.op = "meteora" /\ req.position # 0
       /\ MeteoraPositions[req.position].baseTokenAmount = 0
       /\ MeteoraPositions[req.position].quoteTokenAmount = 0
       /\ MeteoraPositions[req.position].baseFeeAmount = 0
       /\ MeteoraPositions[req.position].quoteFeeAmount = 0

\* The calls that build or send a transaction.
BuildOrSend ==
    {"ethereum.prepareGasOptions", "positionManager.multicall",
     "dlmmPool.removeLiquidity", "solana.simulateWithErrorHandling",
     "solana.sendAndConfirmTransaction"}

\* C12: close-position on an existing position with zero liquidity and zero
\* owed fees in both tokens fails with AlreadyClosed while validating and never
\* reaches submission: no transaction is built or sent.  A position with zero
\* liquidity and a nonzero owed fee passes the check.
C12_EmptyPositionIsAlreadyClosed ==
    /\ EmptyPosition =>
           /\ req.sent = 0
           /\ req.calls \cap BuildOrSend = {}
           /\ req.pc = "done" => req.response.status # 200
           /\ (req.pc = "caught" /\ "poolContract" \in req.calls) => req.error = AlreadyClosed
    /\ (/\ req.op = "close" /\ req.scen # 0 /\ ~EmptyPosition
        /\ "uniswap.getToken" \in req.calls /\ req.pc = "caught") => req.error # AlreadyClosed

\* The Meteora close of a position with no liquidity and no fees has sent a transaction.
C12_Witness ==
    /\ req.op = "meteora" /\ EmptyPosition /\ req.sent = 1 /\ req.pc = "confirm"

\* What the ownership check rejects with when the wallet is not the owner.
NotOwner == Error("Position 42 is not owned by 0xW")

\* C13: close-position with a wallet that is not the verified owner of the
\* position fails with Forbidden, 403, and submits no transaction; the
\* ownership check is never skipped and a failure of it always ends the request.
C13_NotOwnerIsForbidden ==
    req.op = "close" =>
        /\ (req.thrown # <<>> /\ Last(req.thrown) = Rejected("uniswap.checkNFTOwnership", NotOwner)) =>
               /\ req.sent = 0 /\ req.calls \cap BuildOrSend = {}
               /\ req.pc \in {"caught", "done"}
               /\ req.error = forbidden(NotOwner.message)
               /\ req.pc = "done" =>
                      req.response = [status |-> 403, message |-> NotOwner.message]
        /\ (req.thrown # <<>> /\ Last(req.thrown).call = "uniswap.checkNFTOwnership") =>
               /\ req.sent = 0 /\ req.pc \in {"caught", "done"}
               /\ "positionManager.positions" \notin req.calls
        /\ ("positionManager.positions" \in req.calls \/ req.sent > 0) =>
               "uniswap.checkNFTOwnership" \in req.calls

\* The check rejected the wallet and the request was answered 403.
C13_Witness ==
    /\ req.op = "close" /\ req.pc = "done" /\ req.thrown = <<Rejected("uniswap.checkNFTOwnership", NotOwner)>>
    /\ req.response.status = 403 /\ req.sent = 0
    /\ "uniswap.checkNFTOwnership" \in req.calls

\* The business rule a failed close-position request broke, from the check of
\* closePosition that raised its error.
BusinessKind(error) ==
    CASE error = badRequest("Missing required parameters") -> "InvalidRequest"
      [] error = badRequest("No wallet address provided and no default wallet found") -> "InvalidRequest"
      [] error = notFound("Position closed") -> "NotFound"
      [] error = notFound("Pool not found for position") -> "NotFound"
      [] error = forbidden(NotOwner.message) -> "Forbidden"
      [] error = AlreadyClosed -> "AlreadyClosed"
      [] OTHER -> "other"

\* The status each business kind other than `kind` reaches the caller with.
StatusesOfOtherKinds(kind) ==
    {e.statusCode : e \in {x \in {badRequest("Missing required parameters"),
                                  notFound("Position closed"),
                                  forbidden(NotOwner.message),
                                  AlreadyClosed,
                                  internalServerError(RouteFailure("close"))} :
                              BusinessKind(x) # kind}}

\* C14: InvalidRequest, NotFound, Forbidden and AlreadyClosed reach the caller
\* with pairwise distinct kinds: the status a failed request is answered with
\* is the status of no other business kind, nor of the generic internal failure.
C14_BusinessKindsDistinct ==
    (/\ req.op = "close" /\ req.pc = "done" /\ req.response.status # 200
     /\ BusinessKind(req.error) # "other") =>
        req.response.status \notin StatusesOfOtherKinds(BusinessKind(req.error))

\* close-position on an already closed position was answered with status 400,
\* the status of a request with missing parameters.
C14_Witness ==
    /\ req.op = "close" /\ req.pc = "done" /\ req.response.status = 400
    /\ req.error = AlreadyClosed
    /\ badRequest("Missing required parameters").statusCode = 400

\* The errors of a request that lacks a required field.
InvalidRequest ==
    {badRequest("Position token ID is required"), badRequest("Missing required parameters"),
     badRequest("No wallet address provided and no default wallet found")}

Failed == req.pc = "done" /\ req.response.status # 200

\* C16: at every route (position-info, positions-owned, close-position of both
\* connectors) an error that carries a status is rethrown unchanged, every
\* other error becomes the route's generic internal failure, 500, whose message
\* does not contain the original error's text, and the original error is logged
\* before the response is produced.
C16_RouteCatch ==
    Failed =>
        /\ req.logged # <<>> /\ Last(req.logged) = req.error
        /\ "statusCode" \in DOMAIN req.error =>
               req.response = [status |-> req.error.statusCode, message |-> req.error.message]
        /\ "statusCode" \notin DOMAIN req.error =>
               /\ req.response.status = 500
               /\ DOMAIN req.response = {"status", "message"}
               /\ req.response.message \in
                      {"Failed to get position info", "Failed to fetch positions",
                       "Failed to close position", "Internal server error"}
               /\ ~includes(Chars(req.response.message), Chars(req.error.message))

\* The Meteora route answered 500 "Internal server error" for a simulation that
\* failed with a plain error, which it logged.
C16_Witness ==
    /\ req.op = "meteora" /\ Failed /\ req.error = Error("Simulation failed")
    /\ req.response = [status |-> 500, message |-> "Internal server error"]
    /\ Last(req.logged) = Error("Simulation failed")

\* ---- Claims about submission ----

\* The calls of the validation and simulation steps of the Uniswap close.
ValidationCalls ==
    {"ethereum.getWallet", "uniswap.checkNFTOwnership", "positionManager.positions",
     "uniswap.getToken", "poolContract", "uniswap.getV3Pool", "ethereum.prepareGasOptions"}

\* The errors of a run that got as far as submitting.
SubmissionErrors == {Error("insufficient funds"), Error("transaction failed")}

\* C17: one Uniswap close-position run submits the multicall at most once and
\* never retries it; it submits only after the wallet was found, the ownership
\* verified, the position found and not already closed, and the pool found; a
\* run that fails while validating or simulating submits nothing.
C17_SubmitOnceAfterValidation ==
    req.op = "close" =>
        /\ req.sent <= 1
        /\ req.sent = 1 <=> "positionManager.multicall" \in req.calls
        /\ req.sent = 1 =>
               /\ ValidationCalls \subseteq req.calls
               /\ req.thrown = <<>>
               /\ req.walletAddress # "" /\ req.positionAddress = "42"
               /\ req.scen # 0 /\ ~EmptyPosition
               /\ req.pc \in {"confirm", "caught", "done"}
               /\ req.pc = "caught" => req.error \in SubmissionErrors
        /\ (req.pc = "caught" /\ req.error \notin SubmissionErrors) => req.sent = 0
        /\ (Failed /\ req.error \notin SubmissionErrors) => req.sent = 0

\* The multicall was rejected and the request was answered without a second submission.
C17_Witness ==
    /\ req.op = "close" /\ Failed /\ req.error = Error("insufficient funds")
    /\ req.sent = 1 /\ ValidationCalls \subseteq req.calls

OrderedStep(n) ==
    <<CASE (n - 1) % 3 = 0 -> "simulate"
        [] (n - 1) % 3 = 1 -> "send"
        [] OTHER           -> "confirmed",
      ((n - 1) \div 3) + 1>>

Steps(kind) == {n \in 1..Len(req.txlog) : req.txlog[n][1] = kind}

\* C19: the transactions t1..tk of a Meteora close are simulated, sent and
\* confirmed strictly in list order: ti is simulated before it is sent, its
\* send-and-confirm completes before t(i+1) is simulated, no two are in flight
\* and none is sent twice.
C19_StrictOrder ==
    req.op = "meteora" =>
        /\ \A n \in 1..Len(req.txlog) : req.txlog[n] = OrderedStep(n)
        /\ Len(req.txlog) <= 3 * req.transactions
        /\ \A m, n \in Steps("send") : req.txlog[m][2] = req.txlog[n][2] => m = n
        /\ Cardinality(Steps("send")) - Cardinality(Steps("confirmed")) \in {0, 1}
        /\ Cardinality(Steps("send")) = req.sent

\* A close of two transactions ran to its confirmed result.
C19_Witness ==
    /\ req.op = "meteora" /\ req.pc = "done" /\ req.response.status = 200
    /\ req.transactions = 2
    /\ req.txlog = <<<<"simulate", 1>>, <<"send", 1>>, <<"confirmed", 1>>,
                     <<"simulate", 2>>, <<"send", 2>>, <<"confirmed", 2>>>>

\* The simulation of the transaction at hand was rejected.
SimulationFailed ==
    /\ req.op = "meteora" /\ req.thrown # <<>>
    /\ Last(req.thrown).call = "solana.simulateWithErrorHandling"

\* C20: when the simulation of transaction ti of a Meteora close fails, neither
\* ti nor any later transaction is sent, and the run ends failed: closePosition
\* rethrows the simulation error itself, and the response is a failure that
\* carries it when it has a status code.
C20_SimulationFailureStopsRun ==
    SimulationFailed =>
        LET e == Last(req.thrown).error
            ti == req.i + 1
        IN  /\ Last(req.txlog) = <<"simulate", ti>>
            /\ \A n \in 1..Len(req.txlog) : req.txlog[n][1] = "send" => req.txlog[n][2] < ti
            /\ req.sent = ti - 1
            /\ req.pc \in {"caught", "done"}
            /\ req.error = e /\ e \in SimulationErrors
            /\ Last(req.logged) = e
            /\ req.pc = "done" =>
                  /\ Failed
                  /\ HasStatusCode(e) =>
                        req.response = [status |-> e.statusCode, message |-> e.message]

\* The simulation of the second transaction failed after the first one was
\* sent and confirmed, and the failure reached the response.
C20_Witness ==
    /\ SimulationFailed /\ req.pc = "done" /\ req.i = 1 /\ req.sent = 1
    /\ req.response = [status |-> 400,
                       message |-> "Transaction simulation failed: insufficient funds"]

RECURSIVE SumOfFees(_)
SumOfFees(results) ==
    IF results = <<>> THEN 0 ELSE results[1].fee + SumOfFees(Tail(results))

\* The Meteora close has returned its confirmed result.
MeteoraConfirmedResult ==
    /\ req.op = "meteora" /\ req.pc = "done" /\ req.response.status = 200
    /\ req.response.body.status = 1

\* C21: when all k transactions of a Meteora close were sent, the fee of the
\* confirmed result is the sum of the k transactions' fees and its signature
\* is the signature of the last transaction.
C21_FeeIsSumSignatureIsLast ==
    MeteoraConfirmedResult =>
        /\ Len(req.results) = req.transactions /\ req.sent = req.transactions
        /\ req.response.body.data.fee = SumOfFees(req.results)
        /\ req.response.body.signature = req.results[req.transactions].signature

\* Two transactions with different fees, 5 and then 6: the result reports 11
\* and the second signature.
C21_Witness ==
    /\ MeteoraConfirmedResult
    /\ req.results = <<TxResult(1, 5), TxResult(2, 6)>>
    /\ req.response.body.data.fee = 11
    /\ req.response.body.signature = <<"sig", 2>>

\* C22: after all transactions of a Meteora close were sent, a re-fetch of the
\* last signature that finds nothing gives the result {signature, Pending} and
\* no error; when the transaction is found, the result returned is Confirmed.
C22_PendingWhenNotFound ==
    (req.op = "meteora" /\ req.txData # Undefined) =>
        /\ req.sent = req.transactions /\ Len(req.results) = req.transactions
        /\ req.txData = Null =>
              /\ req.pc = "done" /\ req.error = Undefined /\ req.logged = <<>>
              /\ req.response = [status |-> 200,
                                 body |-> [signature |-> Last(req.results).signature,
                                           status |-> 0]]
        /\ (req.txData # Null /\ req.pc = "done" /\ req.response.status = 200) =>
              /\ req.response.body.status = 1
              /\ req.response.body.signature = Last(req.results).signature

\* Both transactions were sent and the re-fetch found nothing.
C22_Witness ==
    /\ req.op = "meteora" /\ req.txData = Null /\ req.transactions = 2
    /\ req.response.body = [signature |-> <<"sig", 2>>, status |-> 0]

\* What the reconciliation is to report for one side of the pair: rawDelta is
\* the size of the balance change read for that mint after the last transaction.
ReconciledAmount(mint, rawDelta, feeCollected, rentRefund, txFee) ==
    LET net == IF mint = SOL_NATIVE_MINT
               THEN rawDelta - feeCollected - rentRefund + txFee
               ELSE rawDelta - feeCollected
    IN  IF net > 0 THEN net ELSE 0

\* C23: in the reconciliation of a Meteora close, the amount removed on each
\* side is max(0, rawDelta - feeCollected - rentRefund + txFee) on the side of
\* the native mint and max(0, rawDelta - feeCollected) on the other: rent refund
\* and transaction fee touch the native side only and no amount is negative.
C23_Reconciliation ==
    MeteoraConfirmedResult =>
        LET pos == MeteoraPositions[req.position]
            data == req.response.body.data
            size(x) == IF x < 0 THEN -x ELSE x
        IN  /\ data.baseTokenAmountRemoved =
                   ReconciledAmount(pos.tokenX, size(req.balanceChanges[1]), pos.baseFeeAmount,
                                    pos.lamports, Last(req.results).fee)
            /\ data.quoteTokenAmountRemoved =
                   ReconciledAmount(pos.tokenY, size(req.balanceChanges[2]), pos.quoteFeeAmount,
                                    pos.lamports, Last(req.results).fee)
            /\ data.baseTokenAmountRemoved >= 0 /\ data.quoteTokenAmountRemoved >= 0

\* Position P1 (native mint on the base side, rent 20, fees 3 and 2) closed with
\* a last transaction fee of 5 and balance changes of 118 and 42: 100 and 40.
C23_Witness ==
    /\ MeteoraConfirmedResult /\ req.position = 1
    /\ req.balanceChanges = <<118, -42>> /\ Last(req.results).fee = 5
    /\ req.response.body.data.baseTokenAmountRemoved = 100
    /\ req.response.body.data.quoteTokenAmountRemoved = 40

\* A Meteora close failed in its loop at a send or confirm after at least one
\* transaction had been sent and its signature and fee obtained.
FailedAfterPartialSend ==
    /\ req.op = "meteora" /\ req.pc \in {"caught", "done"}
    /\ req.results # <<>> /\ Len(req.results) < req.transactions
    /\ ~SimulationFailed

\* C24: once a transaction of a close has been submitted, a later failing send
\* or confirm still leads to a reconciliation against the signature already
\* obtained, and that signature and the fees spent are reported with the failure.
C24_PartialOutcomeReported ==
    FailedAfterPartialSend =>
        /\ "connection.getTransaction" \in req.calls
        /\ req.pc = "done" =>
              /\ "signature" \in DOMAIN req.response
              /\ "fee" \in DOMAIN req.response

\* The first transaction was confirmed with a fee, the send of the second
\* failed, and the response is the bare error.
C24_Witness ==
    /\ FailedAfterPartialSend /\ req.pc = "done"
    /\ req.results = <<TxResult(1, 5)>> /\ req.totalFee = 5 /\ req.sent = 2
    /\ "connection.getTransaction" \notin req.calls
    /\ req.response = [status |-> 500, message |-> "Internal server error"]

\* The token ids of the positions behind the iterations that met no failure and
\* a position with liquidity, in index order.
RECURSIVE ExpectedAddresses(_)
ExpectedAddresses(iterations) ==
    IF iterations = <<>> THEN <<>>
    ELSE LET it == iterations[1]
             rest == ExpectedAddresses(Tail(iterations))
         IN  IF ~it.failed /\ Scenarios[it.scen].details.liquidity # 0
             THEN <<Scenarios[it.scen].tokenId>> \o rest
             ELSE rest

AddressesOf(positions) == [j \in 1..Len(positions) |-> positions[j].address]

OwnerOmitted ==
    /\ req.op = "owned"
    /\ req.walletAddress = "" \/ "uniswap.getFirstWalletAddress" \in req.calls

NoDefaultWallet == badRequest("No wallet address provided and no default wallet found")

PerPositionReads ==
    {"positionManager.tokenOfOwnerByIndex", "positionManager.positions", "uniswap.getToken",
     "uniswap.getV3Pool", "poolContract"}

\* C26: positions-owned without an owner uses the default wallet when there is
\* one and otherwise fails as an invalid request before any chain read; for an
\* owner with zero positions it returns the empty list, not an error, and makes
\* no per-position read.
C26_DefaultOwnerAndEmptyList ==
    /\ (OwnerOmitted /\ req.pc # "start") =>
          /\ "uniswap.getFirstWalletAddress" \in req.calls
          /\ \/ req.walletAddress = "0xW"
             \/ /\ req.walletAddress = "" /\ req.pc \in {"caught", "done"}
                /\ req.error = NoDefaultWallet
                /\ req.calls = {"uniswap.getFirstWalletAddress"}
                /\ req.pc = "done" =>
                      req.response = [status |-> 400, message |-> NoDefaultWallet.message]
    /\ (req.op = "owned" /\ "positionManager.balanceOf" \in req.calls /\ req.numPositions = 0) =>
          /\ req.calls \cap PerPositionReads = {} /\ req.iterations = <<>>
          /\ req.pc \in {"caught", "done"}
          /\ (req.pc = "done" /\ req.response.status = 200) => req.response.body = <<>>
          /\ (req.pc = "caught" \/ req.response.status # 200) => req.error = Error("missing response")

\* The owner was omitted, the default wallet was used and owns no position:
\* the answer is the empty list.
C26_Witness ==
    /\ OwnerOmitted /\ req.walletAddress = "0xW" /\ req.pc = "done"
    /\ req.calls = {"uniswap.getFirstWalletAddress", "positionManager.balanceOf"}
    /\ req.response = [status |-> 200, body |-> <<>>]

\* The Uniswap close has computed the parameters of its transaction.
Simulated ==
    /\ req.op = "close"
    /\ req.pc = "submit" \/ "ethereum.prepareGasOptions" \in req.calls

Phase(r) ==
    CASE r.pc = "done" -> 6
      [] r.pc = "caught" -> 5
      [] r.op = "close" /\ r.pc \in {"start", "validate", "wallet", "ownership",
                                      "positions", "tokens"} -> 1
      [] r.op = "close" /\ r.pc \in {"fees", "pool"} -> 2
      [] r.op = "close" /\ r.pc = "submit" -> 3
      [] r.op = "close" /\ r.pc = "confirm" -> 4
      [] r.op = "meteora" /\ r.pc \in {"start", "rawPosition", "pool", "accountInfo"} -> 1
      [] r.op = "meteora" /\ r.pc = "removeLiquidity" -> 2
      [] r.op = "meteora" /\ r.pc \in {"simulate", "send", "confirm"} -> 3
      [] r.op = "meteora" /\ r.pc \in {"getTransaction", "extract"} -> 4

\* One step of a close run: forward only; nothing follows the end; a failure is
\* followed by the failure answer for the same error and by nothing else; a
\* result comes from Confirming only and a failure answer from a failure only.
CloseRunStep ==
    /\ req.pc # "done"
    /\ Phase(req') >= Phase(req)
    /\ req.pc = "caught" =>
          /\ req'.pc = "done" /\ req'.response.status # 200
          /\ req'.error = req.error
          /\ HasStatusCode(req.error) =>
                req'.response = [status |-> req.error.statusCode, message |-> req.error.message]
    /\ (req'.pc = "done" /\ req.pc # "caught") =>
          /\ Phase(req) = 4
          /\ req'.response.status = 200
          /\ "signature" \in DOMAIN req'.response.body

\* C28: every run of close-position (either connector), its calls returning or
\* failing, ends in exactly one terminal state: done with one result, or failed
\* with the error that caused it.  It moves forward through Validating,
\* Simulating, Submitting, Confirming, never back after a failure, and a failed
\* run produces no result.
C28_RunEndsOnce == [][CloseRunStep]_vars /\ <>(req.pc = "done")

\* A Meteora run that failed in Submitting after a transaction was sent has
\* ended with the failure answer.
C28_Witness ==
    /\ req.op = "meteora" /\ req.pc = "done" /\ req.sent >= 1
    /\ req.response.status # 200 /\ req.txData = Undefined

\* How often a read has been invoked: once for every outcome logged, and once
\* more while an invocation is in flight.
Invoked(st) == Len(st.log) + (IF st.pc = "loop" THEN 1 ELSE 0)

Failures(st) == Len(SelectSeq(st.log, LAMBDA o : ~o.ok))

\* C29: the five reads of the accumulator fetch are in flight together, each
\* in its own retry: a read is invoked at most 3 times, it is invoked again
\* only after a failure of its own, and the fetch yields the accumulator state
\* only when all five have succeeded, whatever the order of their completions.
C29_ConcurrentReadsRetrySeparately ==
    fee.pc = "fetch" =>
        /\ \A r \in Reads :
              /\ Invoked(fee.reads[r]) <= 3
              /\ Invoked(fee.reads[r]) <= Failures(fee.reads[r]) + 1
              /\ fee.reads[r].pc = "returned" => Invoked(fee.reads[r]) = Failures(fee.reads[r]) + 1
              /\ fee.reads[r].pc = "thrown" => Failures(fee.reads[r]) = 3
        /\ fee.all.status = "fulfilled" <=> \A r \in Reads : fee.reads[r].pc = "returned"
        /\ fee.all.status = "fulfilled" =>
              \A r \in Reads : fee.all.value[r] = ReadValue(fee.pool, r)
        /\ fee.all.status = "rejected" <=> \E r \in Reads : fee.reads[r].pc = "thrown"

\* Two reads failed twice and answered at the third invocation, the others
\* answered at once, and the fetch is fulfilled.
C29_Witness ==
    /\ fee.pc = "fetch" /\ fee.all.status = "fulfilled"
    /\ Invoked(fee.reads["slot0"]) = 3 /\ Invoked(fee.reads["ticksUpper"]) = 3
    /\ Invoked(fee.reads["feeGrowthGlobal0X128"]) = 1
    /\ Invoked(fee.reads["feeGrowthGlobal1X128"]) = 1
    /\ Invoked(fee.reads["ticksLower"]) = 1

\* ---------------------------------------------------------------------------
\* The wallet generator script (scripts/create-wallet.ts and its earlier copy).
\* One run is held in req; the other components are idle.
\* ---------------------------------------------------------------------------

\* The two copies of the script: only create-wallet.ts knows --verify.
WalletScripts == {"create-wallet.ts", "part_001"}

\* The lines a user may type at a prompt, as code units:
\* "yes", "YES", " yes ", "no", "y" and the empty line.
TypedLines ==
    {<<121, 101, 115>>, <<89, 69, 83>>, <<32, 121, 101, 115, 32>>, <<110, 111>>, <<121>>, <<>>}

\* String.prototype.trim: white space is removed from both ends.
RECURSIVE trim(_)
trim(s) ==
    IF Len(s) = 0 THEN s
    ELSE IF s[1] \in {9, 10, 13, 32} THEN trim(Tail(s))
    ELSE IF s[Len(s)] \in {9, 10, 13, 32} THEN trim(SubSeq(s, 1, Len(s) - 1))
    ELSE s

\* prompt(): resolves with the trimmed line; the run keeps what was asked and typed.
prompt(r, question, line) ==
    [r EXCEPT !.asked = Append(@, [question |-> question, line |-> line, answer |-> trim(line)])]

isYesUnlessNo(answer) == toLowerCase(answer) # <<110, 111>>

\* answer.toLowerCase() === 'yes'
isYes(answer) == toLowerCase(answer) = <<121, 101, 115>>

NO_ADD(r) == "--no-add" \in r.argv

\* VERIFY_MODE exists in create-wallet.ts only; the earlier copy ignores the flag.
VERIFY_MODE(r) == r.script = "create-wallet.ts" /\ "--verify" \in r.argv

\* process.exit(code)
exit(r, code) == [r EXCEPT !.pc = "exited", !.exitCode = code]

InitWallet ==
    /\ retry = Idle /\ fee = Idle /\ pair = Idle
    /\ \E script \in WalletScripts, argv \in SUBSET {"--no-add", "--verify"} :
        req = [op |-> "wallet", pc |-> "main", script |-> script, argv |-> argv,
               privateKey |-> Undefined, asked |-> <<>>, network |-> <<>>,
               exitCode |-> Undefined]

\* main() up to the first prompt: verify mode, or generate, print, and stop on --no-add.
WalletMain ==
    /\ req.op = "wallet" /\ req.pc = "main"
    /\ IF VERIFY_MODE(req)
       THEN req' = [req EXCEPT !.pc = "verify"]
       ELSE \E privateKey \in {"key1", "key2"} :
                LET r == [req EXCEPT !.privateKey = privateKey] IN
                req' = IF NO_ADD(r) THEN exit(r, 0) ELSE [r EXCEPT !.pc = "backup"]
    /\ UNCHANGED <<retry, fee, pair>>

\* verifyPrivateKey(): an empty, undecodable or wrong-length key exits 1.
WalletVerify ==
    /\ req.op = "wallet" /\ req.pc = "verify"
    /\ \E input \in {"empty", "not base58", "wrong length", "valid"} :
        req' = IF input = "valid" THEN [req EXCEPT !.pc = "returned"] ELSE exit(req, 1)
    /\ UNCHANGED <<retry, fee, pair>>

\* 'Have you securely saved your private key?'
WalletBackup ==
    /\ req.op = "wallet" /\ req.pc = "backup"
    /\ \E line \in TypedLines :
        LET r == prompt(req, "backup", line) IN
        req' = IF ~isYes(Last(r.asked).answer) THEN exit(r, 0) ELSE [r EXCEPT !.pc = "add"]
    /\ UNCHANGED <<retry, fee, pair>>

\* 'Add this wallet to Gateway?'
WalletAdd ==
    /\ req.op = "wallet" /\ req.pc = "add"
    /\ \E line \in TypedLines :
        LET r == prompt(req, "add", line) IN
        req' = IF ~isYes(Last(r.asked).answer) THEN exit(r, 0) ELSE [r EXCEPT !.pc = "default"]
    /\ UNCHANGED <<retry, fee, pair>>

\* 'Set as default Solana wallet?'
WalletDefault ==
    /\ req.op = "wallet" /\ req.pc = "default"
    /\ \E line \in TypedLines : req' = [prompt(req, "default", line) EXCEPT !.pc = "post"]
    /\ UNCHANGED <<retry, fee, pair>>

\* addWalletToGateway: the request goes out; a rejection or a non-ok answer exits 1.
WalletPost ==
    /\ req.op = "wallet" /\ req.pc = "post"
    /\ LET r == [req EXCEPT !.network = Append(@,
                     [method |-> "POST", path |-> "/wallet/add",
                      body |-> [chain |-> "solana", privateKey |-> req.privateKey,
                                setDefault |-> isYes(Last(req.asked).answer)]])]
       IN \E answer \in {"ok", "not ok", "rejected"} :
            req' = IF answer = "ok" THEN [r EXCEPT !.pc = "returned"] ELSE exit(r, 1)
    /\ UNCHANGED <<retry, fee, pair>>

NextWallet ==
    \/ WalletMain
    \/ WalletVerify
    \/ WalletBackup
    \/ WalletAdd
    \/ WalletDefault
    \/ WalletPost

SpecWallet == InitWallet /\ [][NextWallet]_vars

\* The typed lines that amount to the answer "yes".
YesLines == {<<121, 101, 115>>, <<89, 69, 83>>, <<32, 121, 101, 115, 32>>}

AnsweredYes(k, question) ==
    /\ Len(req.asked) >= k
    /\ req.asked[k].question = question
    /\ req.asked[k].line \in YesLines

AnsweredOtherwise(k) == Len(req.asked) >= k /\ req.asked[k].line \notin YesLines

\* C30: the generated private key goes to the Gateway (POST /wallet/add), once,
\* only after "yes" to the backup confirmation and then "yes" to the add prompt;
\* with --no-add, in verify mode, or after any other answer to either prompt,
\* the run makes no network request.
C30_KeySentOnlyAfterTwoConfirmations ==
    req.op = "wallet" =>
        /\ Len(req.network) <= 1
        /\ req.network # <<>> =>
              /\ AnsweredYes(1, "backup")
              /\ AnsweredYes(2, "add")
              /\ Len(req.asked) = 3
              /\ req.network[1].method = "POST"
              /\ req.network[1].path = "/wallet/add"
              /\ req.network[1].body.privateKey = req.privateKey
              /\ req.privateKey \in {"key1", "key2"}
        /\ ( \/ "--no-add" \in req.argv
             \/ (req.script = "create-wallet.ts" /\ "--verify" \in req.argv)
             \/ AnsweredOtherwise(1)
             \/ AnsweredOtherwise(2) ) => req.network = <<>>

C30_Witness ==
    /\ req.op = "wallet" /\ req.pc = "returned"
    /\ Len(req.network) = 1 /\ Len(req.asked) = 3
    /\ req.asked[1].line = <<32, 121, 101, 115, 32>>
    /\ req.asked[2].line = <<89, 69, 83>>
    /\ req.asked[3].line = <<110, 111>>
    /\ req.network[1].body.setDefault = FALSE

\* ---------------------------------------------------------------------------
\* toRawAmount (uniswap.utils): a decimal amount to raw integer units.
\* A number is held as its significant decimal digits and the power of ten of
\* the last digit (0.001 is <<1>> at -3, 1234.5 is <<1,2,3,4,5>> at -1); texts
\* are code units.
\* ---------------------------------------------------------------------------

MaxDecimals == 18

Number(digits, e) == [digits |-> digits, e |-> e]

\* The significant digits the amounts are drawn from: 0, 1, 5, 99, 12345.
AmountDigits == {<<0>>, <<1>>, <<5>>, <<9, 9>>, <<1, 2, 3, 4, 5>>}

\* n zero digits.
Zeros(n) == [k \in 1..n |-> 0]

\* The decimal text of a digit sequence.
digitText(digits) == [k \in DOMAIN digits |-> 48 + digits[k]]

\* Number.prototype.toString of an integer-valued number: plain digits up to
\* 21 of them, and d.ddde+x beyond.
numberToString(digits, zeros) ==
    LET n == Len(digits) + zeros IN
    IF n <= 21 THEN digitText(digits \o Zeros(zeros))
    ELSE digitText(<<digits[1]>>)
            \o (IF Len(digits) > 1 THEN <<46>> \o digitText(Tail(digits)) ELSE <<>>)
            \o <<101, 43>> \o digitText(<<(n - 1) \div 10, (n - 1) % 10>>)

toRawAmountByMultiplication(amount, decimals) ==
    IF amount.digits = <<0>> THEN <<48>>
    ELSE numberToString(amount.digits, amount.e + decimals)

\* toRawAmount(amount, decimals): the amount's digits followed by the zeros that
\* bring its last digit to 10^-decimals, as the text of the big integer.
toRawAmount(amount, decimals) ==
    IF amount.digits = <<0>> THEN <<48>>
    ELSE digitText(amount.digits \o Zeros(amount.e + decimals))

\* The calls: every amount that has at most `decimals` fractional digits.
InitRaw ==
    /\ retry = Idle /\ fee = Idle /\ pair = Idle
    /\ \E digits \in AmountDigits, e \in (0 - MaxDecimals)..3, decimals \in 0..MaxDecimals :
        /\ e + decimals >= 0
        /\ digits = <<0>> => e = 0
        /\ req = [op |-> "toRawAmount", pc |-> "call", amount |-> Number(digits, e),
                  decimals |-> decimals, raw |-> <<>>]

RawConvert ==
    /\ req.op = "toRawAmount" /\ req.pc = "call"
    /\ req' = [req EXCEPT !.pc = "returned", !.raw = toRawAmount(req.amount, req.decimals)]
    /\ UNCHANGED <<retry, fee, pair>>

NextRaw == RawConvert

SpecRaw == InitRaw /\ [][NextRaw]_vars

\* The number a text of raw units stands for at the given decimals: the value of
\* the digits times 10^-decimals, in the normal form of the amounts.
RECURSIVE Normal(_, _)
Normal(digits, e) ==
    IF Len(digits) > 1 /\ digits[Len(digits)] = 0
    THEN Normal(SubSeq(digits, 1, Len(digits) - 1), e + 1)
    ELSE IF digits = <<0>> THEN Number(digits, 0) ELSE Number(digits, e)

fromRawText(raw, decimals) == Normal([k \in DOMAIN raw |-> raw[k] - 48], 0 - decimals)

IsCall(digits, e, decimals) ==
    req.amount = Number(digits, e) /\ req.decimals = decimals

\* C31: toRawAmount gives the exact raw integer: 0.001 at 18 decimals is 1 and
\* fifteen zeros, 1234.5 at 18 is 12345 and seventeen zeros, 1 at 18 is 1 and
\* eighteen zeros; for every decimals from 0 to 18 the text holds digits only
\* (no exponent, sign or point) and reads back as the amount that was given.
C31_ToRawAmountExact ==
    (req.op = "toRawAmount" /\ req.pc = "returned") =>
        /\ \A k \in DOMAIN req.raw : req.raw[k] \in 48..57
        /\ req.raw # <<>>
        /\ (Len(req.raw) > 1 => req.raw[1] # 48)
        /\ fromRawText(req.raw, req.decimals) = req.amount
        /\ IsCall(<<1>>, -3, 18) => req.raw = <<49>> \o [k \in 1..15 |-> 48]
        /\ IsCall(<<1, 2, 3, 4, 5>>, -1, 18) =>
              req.raw = <<49, 50, 51, 52, 53>> \o [k \in 1..17 |-> 48]
        /\ IsCall(<<1>>, 0, 18) => req.raw = <<49>> \o [k \in 1..18 |-> 48]

C31_Witness ==
    /\ req.op = "toRawAmount" /\ req.pc = "returned"
    /\ IsCall(<<1, 2, 3, 4, 5>>, -1, 18)
    /\ Len(req.raw) = 22

\* ---------------------------------------------------------------------------
\* Two fee computations side by side: fee and pair each hold one run of the
\* try block after a fetch that succeeded, on inputs that differ in the values
\* of one token only.
\* ---------------------------------------------------------------------------

\* The values of one token: its global accumulator, its outside accumulators at
\* the two ticks, the position's checkpoint and its tokensOwed.
TokenInputs ==
    {[global |-> g, lowerOutside |-> lo, upperOutside |-> up, last |-> c[1], owed |-> c[2]] :
        g \in {Q128, 3 * Q128}, lo \in {0, Q128}, up \in {0, Q128},
        c \in {<<0, 0>>, <<0, 5>>, <<2 * Q128, 5>>}}

\* What the two tokens share: the current tick and the position's liquidity.
SharedInputs == {[tick |-> t, liquidity |-> l] : t \in {-20, 0, 10}, l \in {3, 1000}}

\* One run after `await Promise.all([...])` has fulfilled with the five values.
TwinRun(shared, in0, in1) ==
    LET pool == PoolState(in0.global, in1.global, shared.tick,
                          in0.lowerOutside, in1.lowerOutside,
                          in0.upperOutside, in1.upperOutside)
    IN  [pc |-> "fetched",
         details |-> Details(shared.liquidity, in0.owed, in1.owed, in0.last, in1.last),
         value |-> [r \in Reads |-> ReadValue(pool, r)],
         totalFee0 |-> in0.owed, totalFee1 |-> in1.owed]

InitTwin ==
    /\ retry = Idle /\ req = Idle
    /\ \E shared \in SharedInputs, a0 \in TokenInputs, a1 \in TokenInputs,
          b0 \in TokenInputs, b1 \in TokenInputs :
          /\ a0 = b0 \/ a1 = b1
          /\ fee = TwinRun(shared, a0, a1)
          /\ pair = TwinRun(shared, b0, b1)

\* The try block's computation and its two assignments.
TwinFees(run) ==
    LET f == computeFees(run.details, run.value)
    IN  [run EXCEPT !.pc = "computed", !.totalFee0 = f.totalFee0, !.totalFee1 = f.totalFee1]

TwinFeesFirst ==
    /\ fee.pc = "fetched"
    /\ fee' = TwinFees(fee)
    /\ UNCHANGED <<retry, pair, req>>

TwinFeesSecond ==
    /\ pair.pc = "fetched"
    /\ pair' = TwinFees(pair)
    /\ UNCHANGED <<retry, fee, req>>

NextTwin == TwinFeesFirst \/ TwinFeesSecond

SpecTwin == InitTwin /\ [][NextTwin]_vars

\* The values of token k (0 or 1) and the shared values of a run.
InputsOf(run, k) ==
    IF k = 0
    THEN <<run.value["feeGrowthGlobal0X128"], run.value["ticksLower"].feeGrowthOutside0X128,
           run.value["ticksUpper"].feeGrowthOutside0X128,
           run.details.feeGrowthInside0LastX128, run.details.tokensOwed0>>
    ELSE <<run.value["feeGrowthGlobal1X128"], run.value["ticksLower"].feeGrowthOutside1X128,
           run.value["ticksUpper"].feeGrowthOutside1X128,
           run.details.feeGrowthInside1LastX128, run.details.tokensOwed1>>

BothComputed == fee.pc = "computed" /\ pair.pc = "computed"

\* C32: two fee computations after a successful fetch whose inputs differ only
\* in token1's values yield the same fee0, and two that differ only in token0's
\* values yield the same fee1.
C32_FeesIndependentPerToken ==
    BothComputed =>
        /\ InputsOf(fee, 0) = InputsOf(pair, 0) => fee.totalFee0 = pair.totalFee0
        /\ InputsOf(fee, 1) = InputsOf(pair, 1) => fee.totalFee1 = pair.totalFee1

\* Token1's values all differ and fee1 differs, fee0 is the same positive fee.
C32_Witness ==
    /\ BothComputed
    /\ InputsOf(fee, 0) = InputsOf(pair, 0)
    /\ \A k \in 1..5 : InputsOf(fee, 1)[k] # InputsOf(pair, 1)[k]
    /\ fee.totalFee1 # pair.totalFee1
    /\ fee.totalFee0 = pair.totalFee0 /\ fee.totalFee0 > fee.details.tokensOwed0

\* ---------------------------------------------------------------------------
\* ConfigManagerCertPassphrase (services/config-manager-cert-passphrase.ts).
\* One call of readPassphrase or readWalletKey is held in req.
\* ---------------------------------------------------------------------------

\* An option or a variable of the process: absent, empty, or a value.
SecretValues(value) == {Undefined, "", value}

InitSecret ==
    /\ retry = Idle /\ fee = Idle /\ pair = Idle
    /\ \E fn \in {"readPassphrase", "readWalletKey"},
          passphrase \in SecretValues("argument"),
          GATEWAY_PASSPHRASE \in SecretValues("environment"),
          GATEWAY_WALLET_KEY \in SecretValues("wallet key"),
          _exit \in {"process.exit", "mock"} :
          req = [op |-> "secret", fn |-> fn, pc |-> fn,
                 argv |-> [passphrase |-> passphrase],
                 env |-> [GATEWAY_PASSPHRASE |-> GATEWAY_PASSPHRASE,
                          GATEWAY_WALLET_KEY |-> GATEWAY_WALLET_KEY],
                 bindings |-> [_exit |-> _exit],
                 consulted |-> <<>>, exits |-> 0, returned |-> Undefined]

\* return value
return(r, value) == [r EXCEPT !.pc = "returned", !.returned = value]

readPassphraseEnvFirst(r) ==
    LET read == [r EXCEPT !.consulted = @ \o <<"passphrase", "GATEWAY_PASSPHRASE">>]
    IN  IF ~falsy(r.env.GATEWAY_PASSPHRASE) THEN return(read, r.env.GATEWAY_PASSPHRASE)
        ELSE IF ~falsy(r.argv.passphrase) THEN return(read, r.argv.passphrase)
        ELSE [read EXCEPT !.pc = "_exit"]

\* readPassphrase up to bindings._exit(): the argument if truthy, else the
\* environment value if truthy, else the error is logged and exit is next.
readPassphrase(r) ==
    LET arg == [r EXCEPT !.consulted = Append(@, "passphrase")]
        env == [arg EXCEPT !.consulted = Append(@, "GATEWAY_PASSPHRASE")]
    IN  IF ~falsy(r.argv.passphrase) THEN return(arg, r.argv.passphrase)
        ELSE IF ~falsy(r.env.GATEWAY_PASSPHRASE) THEN return(env, r.env.GATEWAY_PASSPHRASE)
        ELSE [env EXCEPT !.pc = "_exit"]

SecretReadPassphrase ==
    /\ req.op = "secret" /\ req.pc = "readPassphrase"
    /\ req' = readPassphrase(req)
    /\ UNCHANGED <<retry, fee, pair>>

\* bindings._exit(); return;  process.exit does not return, a replaced binding does.
SecretExit ==
    /\ req.op = "secret" /\ req.pc = "_exit"
    /\ LET r == [req EXCEPT !.exits = @ + 1]
       IN  req' = IF r.bindings._exit = "process.exit"
                  THEN [r EXCEPT !.pc = "terminated"]
                  ELSE return(r, Undefined)
    /\ UNCHANGED <<retry, fee, pair>>

\* readWalletKey: the wallet key if truthy, else return readPassphrase().
SecretReadWalletKey ==
    /\ req.op = "secret" /\ req.pc = "readWalletKey"
    /\ LET r == [req EXCEPT !.consulted = Append(@, "GATEWAY_WALLET_KEY")]
       IN  req' = IF ~falsy(req.env.GATEWAY_WALLET_KEY)
                  THEN return(r, req.env.GATEWAY_WALLET_KEY)
                  ELSE [r EXCEPT !.pc = "readPassphrase"]
    /\ UNCHANGED <<retry, fee, pair>>

NextSecret == SecretReadPassphrase \/ SecretExit \/ SecretReadWalletKey

SpecSecret == InitSecret /\ [][NextSecret]_vars

SecretEnded == req.op = "secret" /\ req.pc \in {"returned", "terminated"}

\* What a call of readPassphrase must end with when `has` tells which values count.
PassphraseOutcome(absent) ==
    LET has(value) == value \notin absent IN
    /\ has(req.argv.passphrase) =>
          req.pc = "returned" /\ req.returned = req.argv.passphrase /\ req.exits = 0
    /\ (~has(req.argv.passphrase) /\ has(req.env.GATEWAY_PASSPHRASE)) =>
          req.pc = "returned" /\ req.returned = req.env.GATEWAY_PASSPHRASE /\ req.exits = 0
    /\ (~has(req.argv.passphrase) /\ ~has(req.env.GATEWAY_PASSPHRASE)) =>
          req.exits = 1 /\ (req.pc = "returned" => req.returned = Undefined)
    /\ req.exits = 1 => ~has(req.argv.passphrase) /\ ~has(req.env.GATEWAY_PASSPHRASE)

SecretOutcome(absent) ==
    LET has(value) == value \notin absent IN
    SecretEnded =>
        /\ req.exits <= 1
        /\ req.fn = "readPassphrase" => PassphraseOutcome(absent)
        /\ req.fn = "readWalletKey" =>
              IF has(req.env.GATEWAY_WALLET_KEY)
              THEN /\ req.pc = "returned" /\ req.returned = req.env.GATEWAY_WALLET_KEY
                   /\ req.exits = 0 /\ req.consulted = <<"GATEWAY_WALLET_KEY">>
              ELSE PassphraseOutcome(absent)

\* C33 as stated: the argument when present, else the environment value, exit
\* exactly when both are absent; readWalletKey returns GATEWAY_WALLET_KEY when
\* set and otherwise does as readPassphrase does.
C33_PresentSecretReturned == SecretOutcome({Undefined})

\* C33, amended: the same with "present" and "set" meaning a non-empty value;
\* an empty argument or variable counts as absent.
C33_NonEmptySecretReturned == SecretOutcome({Undefined, ""})

\* readWalletKey with an empty wallet key and an empty argument falls back to
\* the environment's passphrase.
C33_Witness ==
    /\ SecretEnded /\ req.fn = "readWalletKey"
    /\ req.env.GATEWAY_WALLET_KEY = "" /\ req.argv.passphrase = ""
    /\ req.returned = "environment" /\ req.exits = 0
    /\ req.consulted = <<"GATEWAY_WALLET_KEY", "passphrase", "GATEWAY_PASSPHRASE">>

\* ---------------------------------------------------------------------------
\* The three copies of the fee block side by side, on one position snapshot and
\* one behaviour of the node: req runs the copy of getPositionInfo, fee the copy
\* of getPositionsOwned, pair the copy of closePosition.
\* ---------------------------------------------------------------------------

\* const message = feeError?.message ?? String(feeError); logger.warn(...):
\* the catch of the two later copies.
feeErrorCaughtWithMessage(r, feeError) ==
    LET message == Coalesce(Field(feeError, "message"), "String(feeError)")
    IN  [r EXCEPT !.warned = Append(@, "Could not calculate uncollected fees")]

\* positionsOwned 179-223: the try block after the fetch, on positionDetails,
\* tickLower, tickUpper and liquidity.
computeFeesOwned(positionDetails, v) ==
    LET tickLower == positionDetails.tickLower
        tickUpper == positionDetails.tickUpper
        liquidity == positionDetails.liquidity
        currentTick == v["slot0"].tick
        feeGrowthInside0X128 ==
            feeGrowthInside(v["feeGrowthGlobal0X128"], v["ticksLower"].feeGrowthOutside0X128,
                            v["ticksUpper"].feeGrowthOutside0X128, currentTick, tickLower, tickUpper)
        feeGrowthInside1X128 ==
            feeGrowthInside(v["feeGrowthGlobal1X128"], v["ticksLower"].feeGrowthOutside1X128,
                            v["ticksUpper"].feeGrowthOutside1X128, currentTick, tickLower, tickUpper)
        deltaFeeGrowth0 == deltaFeeGrowth(feeGrowthInside0X128, positionDetails.feeGrowthInside0LastX128)
        deltaFeeGrowth1 == deltaFeeGrowth(feeGrowthInside1X128, positionDetails.feeGrowthInside1LastX128)
    IN  [inside0 |-> feeGrowthInside0X128, inside1 |-> feeGrowthInside1X128,
         totalFee0 |-> positionDetails.tokensOwed0 + uncollected(liquidity, deltaFeeGrowth0),
         totalFee1 |-> positionDetails.tokensOwed1 + uncollected(liquidity, deltaFeeGrowth1)]

computeFeesCloseLiquidityOnly(position, v) ==
    LET f == computeFeesOwned(position, v)
    IN  [f EXCEPT !.totalFee0 = @ - position.tokensOwed0, !.totalFee1 = @ - position.tokensOwed1]

\* closePosition.ts 140-202: the same on position, the ticks normalised inside
\* the try, and currentLiquidity.
computeFeesClose(position, v) ==
    LET tickLower == position.tickLower
        tickUpper == position.tickUpper
        currentLiquidity == position.liquidity
        currentTick == v["slot0"].tick
        feeGrowthInside0X128 ==
            feeGrowthInside(v["feeGrowthGlobal0X128"], v["ticksLower"].feeGrowthOutside0X128,
                            v["ticksUpper"].feeGrowthOutside0X128, currentTick, tickLower, tickUpper)
        feeGrowthInside1X128 ==
            feeGrowthInside(v["feeGrowthGlobal1X128"], v["ticksLower"].feeGrowthOutside1X128,
                            v["ticksUpper"].feeGrowthOutside1X128, currentTick, tickLower, tickUpper)
        deltaFeeGrowth0 == deltaFeeGrowth(feeGrowthInside0X128, position.feeGrowthInside0LastX128)
        deltaFeeGrowth1 == deltaFeeGrowth(feeGrowthInside1X128, position.feeGrowthInside1LastX128)
    IN  [inside0 |-> feeGrowthInside0X128, inside1 |-> feeGrowthInside1X128,
         totalFee0 |-> position.tokensOwed0 + uncollected(currentLiquidity, deltaFeeGrowth0),
         totalFee1 |-> position.tokensOwed1 + uncollected(currentLiquidity, deltaFeeGrowth1)]

\* positionsOwned 150-232: totalFee = tokensOwed, then try { fetch; compute;
\* assign } catch { message; warn }.
FeeBlockOwned(r, fails) ==
    LET results == FetchAccumulators(Scenarios[r.scen].pool, fails)
        settled == promiseAll(results)
        init == [r EXCEPT !.totalFee0 = r.positionDetails.tokensOwed0,
                          !.totalFee1 = r.positionDetails.tokensOwed1,
                          !.exhausted = Exhausted(results),
                          !.fetch = settled.status]
    IN  IF settled.status = "fulfilled"
        THEN LET f == computeFeesOwned(r.positionDetails, settled.value)
             IN  [init EXCEPT !.totalFee0 = f.totalFee0, !.totalFee1 = f.totalFee1,
                              !.inside0 = f.inside0, !.inside1 = f.inside1]
        ELSE feeErrorCaughtWithMessage(init, settled.reason)

\* closePosition.ts 129-208: the same block in closePosition.
FeeBlockClose(r, fails) ==
    LET results == FetchAccumulators(Scenarios[r.scen].pool, fails)
        settled == promiseAll(results)
        init == [r EXCEPT !.totalFee0 = r.positionDetails.tokensOwed0,
                          !.totalFee1 = r.positionDetails.tokensOwed1,
                          !.exhausted = Exhausted(results),
                          !.fetch = settled.status]
    IN  IF settled.status = "fulfilled"
        THEN LET f == computeFeesClose(r.positionDetails, settled.value)
             IN  [init EXCEPT !.totalFee0 = f.totalFee0, !.totalFee1 = f.totalFee1,
                              !.inside0 = f.inside0, !.inside1 = f.inside1]
        ELSE feeErrorCaughtWithMessage(init, settled.reason)

\* A handler that has read the position `scen` and stands before its fee block.
BeforeFees(op, scen) ==
    [Request(op, Undefined, Scenarios[scen].tokenId) EXCEPT
        !.pc = "fees", !.scen = scen, !.positionDetails = Scenarios[scen].details]

InitCopies ==
    \E scen \in ScenarioIds, fails \in FailPatterns :
        /\ retry = [pc |-> "copies", fails |-> fails]
        /\ req = BeforeFees("info", scen)
        /\ fee = BeforeFees("owned", scen)
        /\ pair = BeforeFees("close", scen)

CopyInfo ==
    /\ retry.pc = "copies" /\ req.pc = "fees"
    /\ req' = [FeeBlock(req, retry.fails) EXCEPT !.pc = "after"]
    /\ UNCHANGED <<retry, fee, pair>>

CopyOwned ==
    /\ retry.pc = "copies" /\ fee.pc = "fees"
    /\ fee' = [FeeBlockOwned(fee, retry.fails) EXCEPT !.pc = "after"]
    /\ UNCHANGED <<retry, req, pair>>

CopyClose ==
    /\ retry.pc = "copies" /\ pair.pc = "fees"
    /\ pair' = [FeeBlockClose(pair, retry.fails) EXCEPT !.pc = "after"]
    /\ UNCHANGED <<retry, req, fee>>

NextCopies == CopyInfo \/ CopyOwned \/ CopyClose

SpecCopies == InitCopies /\ [][NextCopies]_vars

CopiesDone == retry.pc = "copies" /\ req.pc = "after" /\ fee.pc = "after" /\ pair.pc = "after"

FeesOf(r) == <<r.totalFee0, r.totalFee1, r.fetch>>

\* C34: on the same position snapshot and the same outcomes of the five reads,
\* the fee blocks of getPositionInfo, getPositionsOwned and closePosition end
\* with the same totalFee0 and totalFee1, on the computed path and on the
\* degraded one alike, and none of them throws.
C34_ThreeCopiesAgree ==
    CopiesDone =>
        /\ FeesOf(req) = FeesOf(fee)
        /\ FeesOf(fee) = FeesOf(pair)
        /\ req.error = Undefined /\ fee.error = Undefined /\ pair.error = Undefined

\* A degraded run with tokensOwed on both sides.
C34_Witness ==
    /\ CopiesDone /\ req.fetch = "rejected"
    /\ FeesOf(pair) = <<5, 7, "rejected">> /\ FeesOf(req) = FeesOf(pair)
    /\ Len(pair.warned) = 1

\* The same snapshot on the computed path: more than tokensOwed on both sides.
C34_WitnessComputed ==
    /\ CopiesDone /\ req.fetch = "fulfilled"
    /\ req.totalFee0 > req.positionDetails.tokensOwed0
    /\ req.totalFee1 > req.positionDetails.tokensOwed1

\* ---------------------------------------------------------------------------
\* The fee block with its reads in flight: the handler awaits Promise.all while
\* the five withRetries loops run, and goes on as soon as Promise.all settles;
\* loops that have not ended by then keep running.  The run is held in fee.
\* ---------------------------------------------------------------------------

lateRejectionUnhandled(run, r, st) ==
    IF st.pc = "thrown" THEN [run EXCEPT !.unhandled = Append(@, r)] ELSE run

\* A read's promise settles after Promise.all has: Promise.all subscribed to
\* every promise of the array when it was called, so a late rejection has a
\* handler and a late value has nobody waiting for it.
lateSettlement(run, r, st) == run

InitLate ==
    /\ \E scen \in {2} :
        fee = [pc |-> "fetch", pool |-> Scenarios[scen].pool,
               reads |-> [r \in Reads |-> RetryStart(DefaultAttempts, DefaultBaseDelayMs)],
               all |-> [status |-> "pending"],
               handler |-> "awaiting", positionDetails |-> Scenarios[scen].details,
               totalFee0 |-> Scenarios[scen].details.tokensOwed0,
               totalFee1 |-> Scenarios[scen].details.tokensOwed1,
               warned |-> <<>>, late |-> {}, unhandled |-> <<>>,
               response |-> [status |-> 0]]
    /\ retry = Idle /\ pair = Idle /\ req = Idle

\* One invocation in flight answers or fails (as FetchAttempt); when Promise.all
\* has settled before, the read's own settlement is a late one.
LateAttempt ==
    /\ fee.pc = "fetch"
    /\ \E r \in Reads, ok \in BOOLEAN :
          /\ fee.reads[r].pc = "loop"
          /\ LET out == IF ok THEN [ok |-> TRUE, value |-> ReadValue(fee.pool, r)]
                              ELSE [ok |-> FALSE, error |-> "E1"]
                 st == RetryIter(fee.reads[r], out)
                 ended == IF st.pc = "loop" /\ st.i >= st.attempts THEN RetryExit(st) ELSE st
                 reads == [fee.reads EXCEPT ![r] = ended]
                 run == [fee EXCEPT !.reads = reads, !.all = allSettled(fee.all, reads)]
             IN  fee' = IF fee.all.status # "pending" /\ ended.pc \in {"returned", "thrown"}
                        THEN lateSettlement([run EXCEPT !.late = @ \cup {<<r, ended.pc>>}], r, ended)
                        ELSE run
    /\ UNCHANGED <<retry, pair, req>>

\* The handler resumes from `await Promise.all([...])`: the try block's
\* computation, or the catch that warns and keeps tokensOwed.
LateResume ==
    /\ fee.pc = "fetch" /\ fee.handler = "awaiting" /\ fee.all.status # "pending"
    /\ fee' = IF fee.all.status = "fulfilled"
              THEN LET f == computeFees(fee.positionDetails, fee.all.value)
                   IN  [fee EXCEPT !.handler = "after", !.totalFee0 = f.totalFee0,
                                   !.totalFee1 = f.totalFee1]
              ELSE [feeErrorCaught(fee, fee.all.reason) EXCEPT !.handler = "after"]
    /\ UNCHANGED <<retry, pair, req>>

\* The rest of the handler: the fee amounts of the response are formatted from
\* totalFee0 and totalFee1.
LateRespond ==
    /\ fee.pc = "fetch" /\ fee.handler = "after"
    /\ fee' = [fee EXCEPT !.handler = "responded",
                          !.response = [status |-> 200,
                                        feeAmount0 |-> formatTokenAmount(fee.totalFee0, 18),
                                        feeAmount1 |-> formatTokenAmount(fee.totalFee1, 18)]]
    /\ UNCHANGED <<retry, pair, req>>

NextLate == LateAttempt \/ FetchSleepDone \/ LateResume \/ LateRespond

SpecLate == InitLate /\ [][NextLate]_vars

FetchFailed == fee.pc = "fetch" /\ "handler" \in DOMAIN fee /\ fee.all.status = "rejected"

\* C35: once the fetch has failed, the fees are tokensOwed and stay so: whatever
\* the reads still in flight do afterwards, totalFee0, totalFee1 and the response
\* keep the degraded values and no error reaches the request.
C35_LateReadsChangeNothing ==
    (FetchFailed /\ fee.handler # "awaiting") =>
        /\ fee.totalFee0 = fee.positionDetails.tokensOwed0
        /\ fee.totalFee1 = fee.positionDetails.tokensOwed1
        /\ fee.unhandled = <<>>
        /\ Len(fee.warned) = 1
        /\ fee.handler = "responded" =>
              /\ fee.response.status = 200
              /\ fee.response.feeAmount0.raw = fee.positionDetails.tokensOwed0
              /\ fee.response.feeAmount1.raw = fee.positionDetails.tokensOwed1

\* After the response went out with the degraded fees, one outstanding read
\* answered and another one exhausted its retries.
C35_Witness ==
    /\ FetchFailed /\ fee.handler = "responded"
    /\ \E a \in Reads, b \in Reads :
          {<<a, "returned">>, <<b, "thrown">>} \subseteq fee.late
    /\ fee.response.feeAmount0.raw = 5 /\ fee.response.feeAmount1.raw = 7

\* ---- The ownership check of the atomic closePosition (closePosition.ts 48-55) ----

\* The request ended at the ownership check, which rejected with an error of
\* the given message.
OwnershipFailedWith(message) ==
    /\ req.op = "close" /\ req.pc \in {"caught", "done"}
    /\ req.thrown # <<>>
    /\ Last(req.thrown) = Rejected("uniswap.checkNFTOwnership", Error(message))

\* The messages of the model that contain the text "is not owned by".
NotOwnedMessages == {"Position 42 is not owned by 0xW"}

\* The other messages the check fails with: the same words in other letter
\* case, an RPC failure, a token that does not exist.
OtherOwnershipMessages ==
    {"Position 42 Is Not Owned By 0xW", "missing response", "ERC721: invalid token ID"}

AnsweredWith(statusCode, message) ==
    /\ req.error = HttpError(statusCode, message)
    /\ req.pc = "done" => req.response = [status |-> statusCode, message |-> message]

\* C36: a failure of the ownership check whose message contains "is not owned
\* by" is answered Forbidden (403); every other failure of the check, an RPC
\* error or a nonexistent token among them, is answered as a bad request (400)
\* with the failure's message; none is answered 404 or 500, and the position
\* lookup has not run.
C36_OwnershipFailureKinds ==
    /\ \A message \in NotOwnedMessages :
          OwnershipFailedWith(message) => AnsweredWith(403, message)
    /\ \A message \in OtherOwnershipMessages :
          OwnershipFailedWith(message) => AnsweredWith(400, message)
    /\ (req.op = "close" /\ req.thrown # <<>>
        /\ Last(req.thrown).call = "uniswap.checkNFTOwnership") =>
          /\ req.pc \in {"caught", "done"}
          /\ Last(req.thrown).error.message \in NotOwnedMessages \cup OtherOwnershipMessages
          /\ req.error.statusCode \in {400, 403}
          /\ "positionManager.positions" \notin req.calls

\* The owner lookup of a token that does not exist was answered 400, not 404.
C36_Witness ==
    /\ OwnershipFailedWith("ERC721: invalid token ID") /\ req.pc = "done"
    /\ req.response = [status |-> 400, message |-> "ERC721: invalid token ID"]

\* ---- Reconciliation of a Meteora close made of several transactions ----

\* C37: when a Meteora close of k > 1 transactions is confirmed, the fee added
\* back on the native side is the last transaction's fee alone, the fee
\* reported is the sum of all k fees, and the transaction re-fetched and the
\* balance changes read are those of the last signature and of no other.
C37_LastFeeAddedBackTotalReported ==
    (MeteoraConfirmedResult /\ req.transactions > 1) =>
        LET pos == MeteoraPositions[req.position]
            data == req.response.body.data
            last == req.results[Len(req.results)]
            size(x) == IF x < 0 THEN -x ELSE x
            native(side) == IF side = "base" THEN pos.tokenX = SOL_NATIVE_MINT
                            ELSE pos.tokenY = SOL_NATIVE_MINT
            expected(side, delta, collected) ==
                LET net == IF native(side) THEN delta - collected - pos.lamports + last.fee
                           ELSE delta - collected
                IN  IF net > 0 THEN net ELSE 0
        IN  /\ Len(req.results) = req.transactions
            /\ data.fee = SumOfFees(req.results)
            /\ data.fee > last.fee
            /\ data.baseTokenAmountRemoved =
                   expected("base", size(req.balanceChanges[1]), pos.baseFeeAmount)
            /\ data.quoteTokenAmountRemoved =
                   expected("quote", size(req.balanceChanges[2]), pos.quoteFeeAmount)
            /\ req.queried = << <<"getTransaction", last.signature>>,
                                <<"extractBalanceChangesAndFee", last.signature>> >>
            /\ last.signature = <<"sig", req.transactions>>

\* P1 closed in two transactions with fees 5 and 6 and balance changes 118 and
\* 42: 11 is reported, 6 is added back (118 - 3 - 20 + 6 = 101).
C37_Witness ==
    /\ MeteoraConfirmedResult /\ req.position = 1
    /\ req.results = <<TxResult(1, 5), TxResult(2, 6)>>
    /\ req.balanceChanges = <<118, -42>>
    /\ req.response.body.data.fee = 11
    /\ req.response.body.data.baseTokenAmountRemoved = 101
    /\ req.queried[2] = <<"extractBalanceChangesAndFee", <<"sig", 2>>>>

\* ---- The shape of the Meteora close result ----

\* The Meteora close has returned a result, Confirmed or Pending.
MeteoraReturned ==
    /\ req.op = "meteora" /\ req.pc = "done" /\ req.response.status = 200

\* C38: a Pending result of the Meteora close holds the signature and the
\* status and nothing else, although every transaction was sent and its fee is
\* known; fee, rent refund, amounts removed and fees collected are there
\* exactly when the status is Confirmed.
C38_PendingCarriesNoAmounts ==
    MeteoraReturned =>
        LET body == req.response.body
        IN  /\ body.status \in {0, 1}
            /\ body.status = 0 =>
                  /\ DOMAIN body = {"signature", "status"}
                  /\ body.signature = req.lastSignature
                  /\ req.sent = req.transactions /\ Len(req.results) = req.transactions
                  /\ req.totalFee > 0
            /\ body.status = 1 =>
                  /\ DOMAIN body = {"signature", "status", "data"}
                  /\ DOMAIN body.data =
                        {"fee", "positionRentRefunded", "baseTokenAmountRemoved",
                         "quoteTokenAmountRemoved", "baseFeeAmountCollected",
                         "quoteFeeAmountCollected"}
            /\ ("data" \in DOMAIN body) <=> (body.status = 1)

\* Two transactions were sent, fees 5 and 6 were paid, and the result is Pending.
C38_Witness ==
    /\ MeteoraReturned /\ req.response.body.status = 0
    /\ req.results = <<TxResult(1, 5), TxResult(2, 6)>> /\ req.totalFee = 11
    /\ req.response.body = [signature |-> <<"sig", 2>>, status |-> 0]

\* ---- The amounts of the atomic close result ----

\* The atomic close has returned its result.
CloseReturned == req.op = "close" /\ req.pc = "done" /\ req.response.status = 200

\* C39: in the result of the atomic close, the amount removed of each token is
\* the liquidity amount expected before submission plus that token's total fee,
\* hence never less than the fee collected, on the base and on the quote side;
\* the amounts are those fixed before the transaction was submitted, whatever
\* the receipt says, and the receipt gives the signature, the status and the
\* gas fee only.
C39_AmountsFromSnapshot ==
    CloseReturned =>
        LET data == req.response.body.data
            before == req.removeParams
            base0 == isBaseToken0(req.token0, req.token1)
            removed0 == IF base0 THEN data.baseTokenAmountRemoved ELSE data.quoteTokenAmountRemoved
            removed1 == IF base0 THEN data.quoteTokenAmountRemoved ELSE data.baseTokenAmountRemoved
            fee0 == IF base0 THEN data.baseFeeAmountCollected ELSE data.quoteFeeAmountCollected
            fee1 == IF base0 THEN data.quoteFeeAmountCollected ELSE data.baseFeeAmountCollected
        IN  /\ removed0.raw = before.amount0 + before.expectedCurrencyOwed0
            /\ removed1.raw = before.amount1 + before.expectedCurrencyOwed1
            /\ fee0.raw = before.expectedCurrencyOwed0 /\ fee1.raw = before.expectedCurrencyOwed1
            /\ data.baseTokenAmountRemoved.raw >= data.baseFeeAmountCollected.raw
            /\ data.quoteTokenAmountRemoved.raw >= data.quoteFeeAmountCollected.raw
            /\ \E receipt \in Receipts :
                  /\ req.response.body.signature = receipt.transactionHash
                  /\ req.response.body.status = receipt.status
                  /\ data.fee.raw = receipt.gasUsed * receipt.effectiveGasPrice
            /\ data.positionRentRefunded = 0

\* A reverted transaction (receipt status 0): the result still reports amounts
\* removed and fees collected as expected before submission.
C39_Witness ==
    /\ CloseReturned /\ req.response.body.status = 0
    /\ req.response.body.data.baseFeeAmountCollected.raw > 0
    /\ req.response.body.data.baseTokenAmountRemoved.raw
          > req.response.body.data.baseFeeAmountCollected.raw
    /\ req.response.body.data.quoteTokenAmountRemoved.raw > 0


====
